---- MODULE Spec2Model ----
(***************************************************************************)
(* A model of the incremental payslip synchronisation (payslip_sync.py),   *)
(* of the paginated listing loops (payslip_sync.py, ihcm_extractor.py) and *)
(* of the session store and its entry points (ihcm_auth.py).               *)
(*                                                                         *)
(* The remote service, the file system and the user at the keyboard are    *)
(* the environment: every response, write result and interrupt point is    *)
(* drawn from a small set.  Time is the number of the sync_all invocation: *)
(* datetime.now() of invocation n is n.                                    *)
(***************************************************************************)
EXTENDS Integers, Sequences, FiniteSets, TLC

\* ------------------------------------------------------------------ bounds
MaxRecords == 2      \* records of the remote collection in the sync runs
MaxRuns == 2         \* sync_all invocations against one cache directory
MaxListed == 4       \* records of the remote collection in the listing runs
MaxBatch == 3        \* largest batch_size given to IHCMExtractor
MaxRequests == 4     \* page requests of one listing loop looked at
MaxCalls == 2        \* calls of the session entry points against one store

\* list_all_payslips: batch_size = 100
batch_size == 100

VARIABLES
    remote,            \* the remote collection, in server order
    srv_total,         \* the total the server reports with every page
    index_file,        \* .cache/payslips/index.json
    files,             \* artifact files under the cache root: path -> content
    data,              \* PayslipIndex._data of the running sync
    pc,                \* position of the payslip program
    all_payslips,      \* list_all_payslips: all_payslips
    start,             \* list_all_payslips: start
    total,             \* list_all_payslips: total of the last page
    batch_len,         \* list_all_payslips: len(batch) of the last page
    requests,          \* page requests issued by the running listing
    page_lens,         \* lengths of the pages the server delivered
    missing,           \* sync_all: missing
    i,                 \* sync_all: position in missing (1-based)
    newly_downloaded,  \* sync_all: newly_downloaded
    ret,               \* the triple sync_all returned
    result,            \* how the last invocation ended
    expiry_signal,     \* the last detail response was a 401 or a login page
    clock,             \* number of the running (or last) invocation
    loaded,            \* the payslips mapping index.load() read
    fetched,           \* detail requests issued in this invocation, per id
    marked,            \* mark_cached calls in this invocation, per id
    failed,            \* ids whose detail fetch failed without ending the run
    persisted,         \* ids whose detail was downloaded and written, artifact not removed
    repersisted,       \* ids downloaded and written again though persisted
    hist,              \* how the previous invocation ended, and the loaded
                       \* entries whose artifact was missing at load
    ex_pc,             \* position of IHCMExtractor.extract_all
    ex_batch_size,     \* IHCMExtractor.batch_size
    all_employees,     \* extract_all: all_employees
    ex_start,          \* extract_all: start
    ex_total,          \* extract_all: total (-1 is None)
    session_file,      \* ~/.cache/ihcm/session.json: exists, mode, content
    umask,             \* the process umask
    a_pc,              \* position of the running session entry point
    a_result,          \* how the last call ended
    a_exc,             \* the exception that ended it
    a_at,              \* the step that raised it
    calls,             \* number of the running (or last) call
    entry,             \* the entry point called
    use_cache,         \* its use_cache argument
    cache_data,        \* cache_data of the call
    cache_found,       \* cache.load() returned a record
    validations,       \* validation requests issued by the call
    validated,         \* outcome of the validation
    browser_launched,  \* a browser was launched by the call
    creds_requested,   \* get_credentials was called
    client,            \* the session handed to the caller
    store_ops,         \* SessionCache methods the call has run
    file_at_call,      \* the session file when the call began
    checked,           \* the last is_token_expired evaluation
    f_pc,              \* authenticate: the step about to run
    jar,               \* names of the cookies in the session's jar
    authorization,     \* the bearer token of the Authorization header
    session_token,     \* the sign-in session token handed from step to step
    f_trace,           \* the requests issued, in order
    f_resp,            \* the response each request got
    f_exc,             \* the exception that ended authenticate
    f_at,              \* the step that raised it
    f_returned,        \* authenticate returned the session
    debug,             \* the debug argument
    debug_entries,     \* request bodies written to the debug log
    poll_pc,           \* browser login: position around the polling loop
    polls,             \* page.evaluate calls made
    polled_token,      \* bearer_token of the browser login
    first_yield,       \* the first poll that gave a token (0: none yet)
    r_pc,              \* one record of sync_all: the request about to run
    ps_record,         \* the record
    skip_pdf,          \* the skip_pdf argument
    ps_encoded_id,     \* encoded_id of the iteration
    ps_pdf_info,       \* (statement_id, image_id) of the iteration
    detail_requested,  \* the id the detail request was made with
    pdf_requested,     \* the URL the PDF request was made with
    index_key,         \* the key mark_cached was called with
    pdf_rel_path,      \* the PDF was saved
    q_pc,              \* one authenticated request: about to be made, done
    q_fetcher,         \* who makes it
    q_response,        \* its response: status and how the text begins
    q_id,              \* the text of the encoded id of a detail request
    q_outcome,         \* what the fetcher raised or returned
    q_aborted,         \* sync_all re-raised the failure as session expiry
    pg,                \* the two listing loops, fed the same responses
    first_total,       \* the total of the first response (-1: none yet)
    totals,            \* the totals reported so far
    syncers,           \* two sync_all invocations on one cache directory
    disk_index,        \* the index.json they share
    disk_files,        \* the artifact files they share: path -> content
    last_writer,       \* the invocation whose save wrote index.json last
    written,           \* the payslips mapping each invocation saved last
    b_pc,              \* payslip main: the step about to run
    b_use_cache,       \* use_cache = not args.no_cache
    browser,           \* the browser process: none, open, closed
    playwright,        \* the Playwright driver: none, started, stopped
    login_result,      \* what _authenticate_with_browser_kept_alive returned
    auth_result,       \* auth_result of main
    raised_at,         \* the failure that reached main: step, exception
    main_ret,          \* what main returned (-1: not yet, 2: an exception)
    after_close        \* auth_result and processes after the first close_browser

syncVars == <<index_file, files, data, missing, i, newly_downloaded, ret,
              expiry_signal, clock, loaded, fetched, marked, failed,
              persisted, repersisted, hist>>
listVars == <<all_payslips, start, total, batch_len>>
exVars == <<ex_pc, ex_batch_size, all_employees, ex_start, ex_total>>
authVars == <<session_file, umask, a_pc, a_result, a_exc, a_at, calls, entry,
              use_cache, cache_data, cache_found, validations, validated,
              browser_launched, creds_requested, client, store_ops,
              file_at_call, checked>>
flowVars == <<f_pc, jar, authorization, session_token, f_trace, f_resp,
              f_exc, f_at, f_returned, debug, debug_entries>>
pollVars == <<poll_pc, polls, polled_token, first_yield>>
pdfVars == <<r_pc, ps_record, skip_pdf, ps_encoded_id, ps_pdf_info,
             detail_requested, pdf_requested, index_key, pdf_rel_path>>
fetchVars == <<q_pc, q_fetcher, q_response, q_id, q_outcome, q_aborted>>
pageVars == <<pg, first_total, totals>>
concVars == <<syncers, disk_index, disk_files, last_writer, written>>
browserVars == <<b_pc, b_use_cache, browser, playwright, login_result,
                 auth_result, raised_at, main_ret, after_close>>
mainVars == <<remote, srv_total, pc, result, requests, page_lens,
              syncVars, listVars, exVars, authVars>>
vars == <<mainVars, flowVars, pollVars, pdfVars, fetchVars, pageVars, concVars, browserVars>>

\* ------------------------------------------------------------- data model
Ids == 1..(IF MaxRecords > MaxListed THEN MaxRecords ELSE MaxListed)
\* The pay dates: two, so that records can share one.
Dates == {1, 2}
NoPath == <<>>

Min(a, b) == IF a < b THEN a ELSE b

\* A record summary of the listing: has_id tells whether payDetailUri or one
\* of the fallback id fields is present.
RecordOf(n, d, h) == [id |-> n, pay_date |-> d, has_id |-> h]

\* The collections of at most n records, ids distinct, in server order.
\* Dates matter only by which records share one: the first record has date 1.
\* At most one record (the one at position noid) has no id field.
Collections(n) ==
    UNION { { [j \in 1..k |-> RecordOf(j, f[j], j # noid)] :
              f \in {g \in [1..k -> Dates] : k >= 1 => g[1] = 1},
              noid \in 0..k } : k \in 0..n }

EmptyIndex == [payslips |-> <<>>, total_count |-> 0, last_sync |-> 0]
NoIndexFile == [exists |-> FALSE, content |-> EmptyIndex]

Zero == [n \in Ids |-> 0]
NoHist == [prev_result |-> "none", prev_clean |-> TRUE, prev_full |-> TRUE,
           dangling |-> {}]

Restrict(f, S) == [x \in S |-> f[x]]
Put(f, k, v) == [x \in (DOMAIN f) \cup {k} |-> IF x = k THEN v ELSE f[x]]

\* ------------------------------------------------------------ PayslipIndex
\* PayslipIndex.load: a missing file gives the empty structure.
load(file) == IF file.exists THEN file.content ELSE EmptyIndex

\* PayslipIndex.save: stamps last_sync, recounts, writes the file.
save(d, now) ==
    [payslips |-> d.payslips,
     total_count |-> Cardinality(DOMAIN d.payslips),
     last_sync |-> now]

\* PayslipIndex.save as seen on disk: mkdir and write_text of the index file.
IndexFileAfterSave(d, now) == [exists |-> TRUE, content |-> save(d, now)]

\* A slip: the id is looked up in _data instead of _data["payslips"].
is_cached_wrong_mapping(d, fs, encoded_id) == FALSE

\* A slip: the file check is left out (verify_exists ignored).
is_cached_unverified(d, fs, encoded_id) == encoded_id \in DOMAIN d.payslips

\* PayslipIndex.is_cached with verify_exists=True.
is_cached(d, fs, encoded_id) ==
    IF encoded_id \notin DOMAIN d.payslips THEN FALSE
    ELSE LET json_path == d.payslips[encoded_id].json_path
         IN  IF json_path # NoPath /\ json_path \notin DOMAIN fs
             THEN FALSE
             ELSE TRUE

\* A slip: the entry is keyed by the pay date instead of the encoded id.
mark_cached_by_date(d, encoded_id, pay_date, json_path, pdf_path, now) ==
    [d EXCEPT !.payslips =
        Put(d.payslips, pay_date,
            [pay_date |-> pay_date, json_path |-> json_path,
             pdf_path |-> pdf_path, cached_at |-> now])]

\* PayslipIndex.mark_cached.
mark_cached(d, encoded_id, pay_date, json_path, pdf_path, now) ==
    [d EXCEPT !.payslips =
        Put(d.payslips, encoded_id,
            [pay_date |-> pay_date, json_path |-> json_path,
             pdf_path |-> pdf_path, cached_at |-> now])]

\* ----------------------------------------------------------- PayslipSyncer
\* The detail responses of the remote service.
Responses ==
    [status : {200, 401, 404, 500},
     body : {"json", "doctype", "html", "garbage"}]

\* PayslipSyncer._check_session_valid: the message of the RuntimeError it
\* raises, or "ok".  A body "doctype" starts with "<!", "html" with "<html".
_check_session_valid(r) ==
    IF r.status = 401 THEN "Authentication failed (401)"
    ELSE IF r.body \in {"doctype", "html"} THEN "Session expired"
    ELSE "ok"

\* PayslipSyncer.fetch_payslip_detail: what the call raises, or the detail.
fetch_payslip_detail(r, encoded_id) ==
    LET valid == _check_session_valid(r)
    IN  IF valid # "ok" THEN [exc |-> "RuntimeError", msg |-> valid]
        ELSE IF r.status = 404
             THEN [exc |-> "RuntimeError", msg |-> "Payslip not found"]
        ELSE IF r.status # 200
             THEN [exc |-> "RuntimeError", msg |-> "Failed to fetch"]
        ELSE IF r.body = "json" THEN [exc |-> "none", msg |-> "detail"]
        ELSE [exc |-> "JSONDecodeError", msg |-> "undecodable"]

\* What the remote service means by a response: the session has expired
\* when it answers 401 or with the HTML login page.
IsExpiryResponse(r) == r.status = 401 \/ r.body \in {"doctype", "html"}

\* A slip: only the 401 message is recognised.
IsSessionExpired_401_only(msg) == msg = "Authentication failed (401)"

\* sync_all, except RuntimeError: "401" in str(e) or "expired" in
\* str(e).lower(), for the ids of Ids, whose text holds neither (the text
\* of the messages is in FetchPayslipDetail and ExpiryInMessage).
IsSessionExpired(msg) ==
    msg \in {"Authentication failed (401)", "Session expired"}

\* PayslipSyncer._get_encoded_id: the id, or 0 for the ValueError.
_get_encoded_id(ps) == IF ps.has_id THEN ps.id ELSE 0

\* PayslipSyncer._get_pay_date.
_get_pay_date(ps) == ps.pay_date

\* PayslipSyncer._make_file_path, relative to CACHE_DIR: the year/month
\* bucket is a function of the date, so the date and the extension name it.
_make_file_path(pay_date, extension) == <<pay_date, extension>>

\* sync_all, "Find missing payslips": the listed records with an id that
\* the index does not hold, in listing order.
RECURSIVE FindMissing(_, _, _)
FindMissing(payslips, d, fs) ==
    IF payslips = <<>> THEN <<>>
    ELSE LET ps == Head(payslips)
             rest == FindMissing(Tail(payslips), d, fs)
         IN  IF _get_encoded_id(ps) # 0
                /\ ~is_cached(d, fs, _get_encoded_id(ps))
             THEN <<ps>> \o rest
             ELSE rest

\* A slip: the loop stops on an empty page only.
ListingComplete_empty_only(n_all, tot, n_batch) == n_batch = 0

\* list_all_payslips, "Check if we've fetched all payslips".
ListingComplete(n_all, tot, n_batch) == n_all >= tot \/ n_batch = 0

\* A slip: the offset advances by the requested page size.
NextStart_by_page_size(st, n_batch) == st + batch_size

\* list_all_payslips, "start += len(batch)".
NextStart(st, n_batch) == st + n_batch

\* main, the except clauses around sync_all: what the user is told.
main_message(res) ==
    CASE res = "returned" -> "Done!"
      [] res = "RuntimeError" -> "Sync failed"
      [] res = "KeyboardInterrupt" -> "Interrupted by user. Progress has been saved."
      [] OTHER -> "traceback"

\* The pages the server may deliver at an offset: any length up to the
\* requested limit and to what is left of the collection.
PageLengths(st, limit) ==
    0..(IF st >= Len(remote) THEN 0 ELSE Min(limit, Len(remote) - st))

PageAt(st, m) == SubSeq(remote, st + 1, st + m)

\* ============================================================ ihcm_auth.py
\* The session store (SessionCache, ~/.cache/ihcm/session.json) and the
\* three entry points that hand out an authenticated session.  Time is the
\* number of the call for created_at and last_validated, and epoch seconds
\* for the JWT expiry check.

\* is_token_expired: buffer_minutes = 5
buffer_minutes == 5

\* The required fields of SessionCache.load.
required_fields == {"bearer_token", "cookies", "created_at"}

\* datetime.now() at the expiry check, epoch seconds.
Nows == {1000, 2000}

\* The exp values of a token payload: far past, the epoch, around the
\* buffer, ten minutes ahead.
Exps == {-1, 0} \cup UNION {{n - 1, n + 299, n + 300, n + 600} : n \in Nows}

\* A value of the exp claim: absent, an integer, a string, or null.
ExpClaims ==
    {[kind |-> k, value |-> 0] : k \in {"absent", "string", "null"}}
    \cup {[kind |-> "int", value |-> e] : e \in Exps}

\* A bearer token by what is_token_expired reads of it: the number of
\* dot-separated segments, whether the padded middle segment is base64,
\* what the decoded bytes parse to as JSON, and the exp claim of an object.
Token(seg, b64, js, e) ==
    [segments |-> seg, b64ok |-> b64, json |-> js, exp |-> e]

NoExp == [kind |-> "absent", value |-> 0]

Tokens ==
    {Token(1, TRUE, "object", NoExp), Token(4, TRUE, "object", NoExp),
     Token(3, FALSE, "object", NoExp), Token(3, TRUE, "notjson", NoExp),
     Token(3, TRUE, "number", NoExp), Token(3, TRUE, "list", NoExp)}
    \cup {Token(3, TRUE, "object", e) : e \in ExpClaims}

Cookies == {"c1", "c2"}

\* The X-XSRF-TOKEN header of a login session: the value of the XSRF-TOKEN
\* cookie among the extracted cookies, None when there is no such cookie.
XsrfOf(ck) == IF ck = "c1" THEN "x1" ELSE "none"

\* The content of the session file: what json.loads makes of it, and for an
\* object the required fields it lacks and the values it holds.
Content(js, lack, tok, ck, created, last) ==
    [json |-> js, lacks |-> lack, bearer_token |-> tok, cookies |-> ck,
     xsrf_token |-> XsrfOf(ck), created_at |-> created,
     last_validated |-> last]

NoContent == Content("none", {}, Token(1, TRUE, "object", NoExp), "c1", 0, 0)
NoSessionFile == [exists |-> FALSE, mode |-> "none", content |-> NoContent]

\* The contents that are not a well-formed record: unparseable text, JSON
\* that is a number, null or a list, and an object lacking a required field.
BrokenContents ==
    {[NoContent EXCEPT !.json = k] : k \in {"garbage", "number", "null", "list"}}
    \cup {[NoContent EXCEPT !.json = "object", !.lacks = {f}] :
            f \in required_fields}

\* What os gives a file that write_text creates: 0666 masked by the umask.
CreateMode(mask) == IF mask = "077" THEN "0600" ELSE "0644"

\* A slip: clear leaves the file in place.
SessionCache_clear_skipped(file) == file

\* SessionCache.clear.
SessionCache_clear(file) == IF file.exists THEN NoSessionFile ELSE file

\* SessionCache.load: the exception it raises (or "none"), whether it
\* returns data, and the file it leaves.  "field in data" raises TypeError
\* when data is a number or null, and is False for every field of a list.
SessionCache_load(file) ==
    IF ~file.exists
    THEN [exc |-> "none", found |-> FALSE, file |-> file]
    ELSE IF file.content.json = "garbage"
    THEN [exc |-> "none", found |-> FALSE, file |-> SessionCache_clear(file)]
    ELSE IF file.content.json \in {"number", "null"}
    THEN [exc |-> "TypeError", found |-> FALSE, file |-> file]
    ELSE IF file.content.json = "list"
    THEN [exc |-> "none", found |-> FALSE, file |-> SessionCache_clear(file)]
    ELSE IF file.content.lacks # {}
    THEN [exc |-> "none", found |-> FALSE, file |-> SessionCache_clear(file)]
    ELSE [exc |-> "none", found |-> TRUE, file |-> file]

\* SessionCache.save up to write_text: an existing file keeps its mode, a
\* new one gets the mode the umask leaves.
SessionCache_save_write(file, mask, bearer_token, ck, now) ==
    [exists |-> TRUE,
     mode |-> IF file.exists THEN file.mode ELSE CreateMode(mask),
     content |-> Content("object", {}, bearer_token, ck, now, now)]

\* SessionCache.save, chmod(0o600).
SessionCache_save_chmod(file) == [file EXCEPT !.mode = "0600"]

\* A slip: the timestamp is not written.
update_last_validated_skipped(file, now) == file

\* A slip: the record is stamped as if it were new.
update_last_validated_restamps(file, now) ==
    IF file.exists
    THEN [file EXCEPT !.content.last_validated = now,
                      !.content.created_at = now]
    ELSE file

\* SessionCache.update_last_validated: load, then write_text of the record
\* with the new timestamp; the mode is not touched.
update_last_validated(file, now) ==
    LET got == SessionCache_load(file)
    IN  IF got.exc = "none" /\ got.found
        THEN [got.file EXCEPT !.content.last_validated = now]
        ELSE got.file

\* SessionCache.is_token_expired at time now: the exception it raises (or
\* "none") and the value it returns.  ValueError (binascii.Error,
\* UnicodeDecodeError, JSONDecodeError) and KeyError are caught and give
\* True; payload.get on a non-object raises AttributeError and
\* datetime.fromtimestamp of a string raises TypeError, neither is caught.
is_token_expired(bearer_token, now) ==
    LET buffer_seconds == buffer_minutes * 60
        exp_timestamp == bearer_token.exp
    IN  IF bearer_token.segments # 3 THEN [exc |-> "none", value |-> TRUE]
        ELSE IF ~bearer_token.b64ok THEN [exc |-> "none", value |-> TRUE]
        ELSE IF bearer_token.json = "notjson"
             THEN [exc |-> "none", value |-> TRUE]
        ELSE IF bearer_token.json # "object"
             THEN [exc |-> "AttributeError", value |-> FALSE]
        ELSE IF exp_timestamp.kind \in {"absent", "null"}
             THEN [exc |-> "none", value |-> FALSE]
        ELSE IF exp_timestamp.kind = "int" /\ exp_timestamp.value = 0
             THEN [exc |-> "none", value |-> FALSE]
        ELSE IF exp_timestamp.kind = "string"
             THEN [exc |-> "TypeError", value |-> FALSE]
        ELSE IF exp_timestamp.value - now < buffer_seconds
             THEN [exc |-> "none", value |-> TRUE]
        ELSE [exc |-> "none", value |-> FALSE]

\* A slip: the cached cookies are not put into the session.
_reconstruct_session_without_cookies(cache) ==
    [bearer_token |-> cache.bearer_token, cookies |-> NoContent.cookies,
     browser_context |-> FALSE, source |-> "cache"]

\* _reconstruct_session_from_cache: the client made of the cached record.
_reconstruct_session_from_cache(cache) ==
    [bearer_token |-> cache.bearer_token, cookies |-> cache.cookies,
     browser_context |-> FALSE, source |-> "cache"]

NoClient ==
    [bearer_token |-> NoContent.bearer_token, cookies |-> "c1",
     browser_context |-> FALSE, source |-> "none"]

\* The answers to the validation request: a status, or a RequestException.
ValidationAnswers == {"200", "401", "500", "RequestException"}

\* _validate_session.
_validate_session(answer) == answer = "200"

\* A slip: the new session is saved whatever use_cache says.
ShouldSave_always(e, cached) == e # "protocol"

\* "Cache the new session for future use": create_authenticated_session has
\* no such step, the two browser entry points save if use_cache.
ShouldSave(e, cached) == e # "protocol" /\ cached

EntryPoints == {"protocol", "playwright", "with_browser"}

\* No expiry check made yet in this call.
NoCheck == [done |-> FALSE, now |-> 0, res |-> [exc |-> "none", value |-> FALSE]]

\* No call yet, no session file; the umask of the user's shell.
AuthInit ==
    /\ session_file = NoSessionFile
    /\ umask \in {"022", "077"}
    /\ a_pc = "idle"
    /\ a_result = "none"
    /\ a_exc = "none"
    /\ a_at = "none"
    /\ calls = 0
    /\ entry = "protocol"
    /\ use_cache = TRUE
    /\ cache_data = NoContent
    /\ cache_found = FALSE
    /\ validations = 0
    /\ validated = "none"
    /\ browser_launched = FALSE
    /\ creds_requested = FALSE
    /\ client = NoClient
    /\ store_ops = {}
    /\ file_at_call = NoSessionFile
    /\ checked = NoCheck

\* ---------------------------------------------------------------- sync_all
\* The invocations modelled are those of --skip-pdf: sync_all(skip_pdf=True)
\* writes one JSON artifact per record and pdf_path stays None.

\* sync_all up to index.load(); the invocation's bookkeeping is reset.
StartSync ==
    /\ pc = "idle"
    /\ clock < MaxRuns
    /\ clock' = clock + 1
    /\ data' = load(index_file)
    /\ loaded' = load(index_file).payslips
    /\ pc' = "list"
    /\ all_payslips' = <<>>
    /\ start' = 0
    /\ total' = 0
    /\ batch_len' = 0
    /\ requests' = 0
    /\ page_lens' = <<>>
    /\ missing' = <<>>
    /\ i' = 1
    /\ newly_downloaded' = 0
    /\ ret' = <<>>
    /\ result' = "running"
    /\ expiry_signal' = FALSE
    /\ fetched' = Zero
    /\ marked' = Zero
    /\ failed' = {}
    /\ hist' = [prev_result |-> result,
                prev_clean |-> failed = {},
                prev_full |-> all_payslips = remote,
                dangling |-> {n \in DOMAIN load(index_file).payslips :
                                load(index_file).payslips[n].json_path
                                    \notin DOMAIN files}]
    /\ UNCHANGED <<remote, srv_total, index_file, files, persisted, repersisted,
                   exVars, authVars>>
    /\ UNCHANGED <<flowVars, pollVars, pdfVars>>
    /\ UNCHANGED fetchVars
    /\ UNCHANGED pageVars
    /\ UNCHANGED concVars
    /\ UNCHANGED browserVars

\* One iteration of the loop of list_all_payslips: one page request.
\* kind is the shape of the answer: a dict with data and total, a bare list
\* (or a dict without total), another structure, or an answer that makes
\* the call raise RuntimeError (401, login page, other status, bad JSON).
ListPage ==
    /\ pc = "list"
    /\ requests' = requests + 1
    /\ \E kind \in {"dict", "list", "other", "error"},
          m \in PageLengths(start, batch_size) :
          LET batch == PageAt(start, m)
              tot == IF kind = "dict" THEN srv_total ELSE Len(batch)
          IN  \/ /\ kind = "error"
                 /\ pc' = "idle"
                 /\ result' = "RuntimeError"
                 /\ UNCHANGED <<listVars, page_lens>>
              \/ /\ kind = "other"
                 /\ pc' = "listed"
                 /\ UNCHANGED <<listVars, page_lens, result>>
              \/ /\ kind \in {"dict", "list"}
                 /\ all_payslips' = all_payslips \o batch
                 /\ total' = tot
                 /\ batch_len' = Len(batch)
                 /\ page_lens' = Append(page_lens, Len(batch))
                 /\ IF ListingComplete(Len(all_payslips \o batch), tot, Len(batch))
                    THEN pc' = "listed" /\ start' = start
                    ELSE pc' = "list" /\ start' = NextStart(start, Len(batch))
                 /\ UNCHANGED result
    /\ UNCHANGED <<remote, srv_total, syncVars, exVars, authVars>>
    /\ UNCHANGED <<flowVars, pollVars, pdfVars>>
    /\ UNCHANGED fetchVars
    /\ UNCHANGED pageVars
    /\ UNCHANGED concVars
    /\ UNCHANGED browserVars

\* sync_all from the return of list_all_payslips to the start of the
\* download loop: the empty listing, the partition, the nothing-missing exit.
\* The locals of list_all_payslips are gone once it has returned.
Partition ==
    /\ pc = "listed"
    /\ start' = 0
    /\ total' = 0
    /\ batch_len' = 0
    /\ requests' = 0
    /\ page_lens' = <<>>
    /\ LET total_available == Len(all_payslips)
           miss == FindMissing(all_payslips, data, files)
           already_cached == total_available - Len(miss)
       IN  IF all_payslips = <<>>
           THEN /\ ret' = <<0, 0, 0>>
                /\ result' = "returned"
                /\ pc' = "idle"
                /\ UNCHANGED <<data, index_file, missing, i, newly_downloaded>>
           ELSE IF miss = <<>>
           THEN /\ data' = save(data, clock)
                /\ index_file' = IndexFileAfterSave(data, clock)
                /\ ret' = <<total_available, already_cached, 0>>
                /\ result' = "returned"
                /\ pc' = "idle"
                /\ UNCHANGED <<missing, i, newly_downloaded>>
           ELSE /\ missing' = miss
                /\ i' = 1
                /\ newly_downloaded' = 0
                /\ pc' = "loop"
                /\ UNCHANGED <<data, index_file, ret, result>>
    /\ UNCHANGED <<remote, srv_total, files, expiry_signal, clock, loaded,
                   fetched, marked, failed, persisted, repersisted, hist,
                   all_payslips, exVars, authVars>>
    /\ UNCHANGED <<flowVars, pollVars, pdfVars>>
    /\ UNCHANGED fetchVars
    /\ UNCHANGED pageVars
    /\ UNCHANGED concVars
    /\ UNCHANGED browserVars

\* A slip: the error is re-raised without saving.
SaveOnExpiry_skipped(file, d, now) == file

\* sync_all, the session-expiry branch: "Save progress before raising".
SaveOnExpiry(file, d, now) == IndexFileAfterSave(d, now)

\* sync_all, "Save final index".
SaveFinal(file, d, now) == IndexFileAfterSave(d, now)

\* Where a KeyboardInterrupt may arrive in one iteration: not at all, during
\* the detail request, after the JSON file is written (before mark_cached),
\* or during the sleep that ends the iteration.
InterruptPoints == {"none", "fetch", "write", "sleep"}

\* One iteration of the download loop of sync_all, for missing[i].
\* r is the detail response, io the result of writing the JSON file, intr
\* where an interrupt arrives.
FetchRecord ==
    /\ pc = "loop"
    /\ i <= Len(missing)
    /\ \E r \in Responses, io \in {"ok", "OSError"}, intr \in InterruptPoints :
          LET ps == missing[i]
              encoded_id == _get_encoded_id(ps)
              pay_date == _get_pay_date(ps)
              got == fetch_payslip_detail(r, encoded_id)
              json_path == _make_file_path(pay_date, "json")
          IN  /\ fetched' = [fetched EXCEPT ![encoded_id] = @ + 1]
              /\ \/ /\ intr = "fetch"
                    /\ expiry_signal' = FALSE
                    /\ pc' = "idle"
                    /\ result' = "KeyboardInterrupt"
                    /\ UNCHANGED <<data, index_file, files, i, newly_downloaded,
                                   marked, failed, persisted, repersisted>>
                 \/ /\ intr # "fetch"
                    /\ got.exc = "RuntimeError"
                    /\ IsSessionExpired(got.msg)
                    /\ expiry_signal' = IsExpiryResponse(r)
                    /\ data' = save(data, clock)
                    /\ index_file' = SaveOnExpiry(index_file, data, clock)
                    /\ pc' = "idle"
                    /\ result' = "RuntimeError"
                    /\ UNCHANGED <<files, i, newly_downloaded, marked, failed,
                                   persisted, repersisted>>
                 \/ /\ intr # "fetch"
                    /\ got.exc = "RuntimeError"
                    /\ ~IsSessionExpired(got.msg)
                    /\ expiry_signal' = IsExpiryResponse(r)
                    /\ failed' = failed \cup {encoded_id}
                    /\ IF intr = "sleep"
                       THEN pc' = "idle" /\ result' = "KeyboardInterrupt"
                            /\ i' = i
                       ELSE pc' = "loop" /\ result' = result /\ i' = i + 1
                    /\ UNCHANGED <<data, index_file, files, newly_downloaded,
                                   marked, persisted, repersisted>>
                 \/ /\ intr # "fetch"
                    /\ got.exc = "JSONDecodeError"
                    /\ expiry_signal' = IsExpiryResponse(r)
                    /\ pc' = "idle"
                    /\ result' = "JSONDecodeError"
                    /\ UNCHANGED <<data, index_file, files, i, newly_downloaded,
                                   marked, failed, persisted, repersisted>>
                 \/ /\ intr # "fetch"
                    /\ got.exc = "none"
                    /\ io = "OSError"
                    /\ expiry_signal' = IsExpiryResponse(r)
                    /\ pc' = "idle"
                    /\ result' = "OSError"
                    /\ UNCHANGED <<data, index_file, files, i, newly_downloaded,
                                   marked, failed, persisted, repersisted>>
                 \/ /\ intr = "write"
                    /\ got.exc = "none"
                    /\ io = "ok"
                    /\ expiry_signal' = IsExpiryResponse(r)
                    /\ files' = Put(files, json_path, encoded_id)
                    /\ persisted' = persisted \cup {encoded_id}
                    /\ repersisted' = repersisted \cup ({encoded_id} \cap persisted)
                    /\ pc' = "idle"
                    /\ result' = "KeyboardInterrupt"
                    /\ UNCHANGED <<data, index_file, i, newly_downloaded,
                                   marked, failed>>
                 \/ /\ intr \in {"none", "sleep"}
                    /\ got.exc = "none"
                    /\ io = "ok"
                    /\ expiry_signal' = IsExpiryResponse(r)
                    /\ files' = Put(files, json_path, encoded_id)
                    /\ persisted' = persisted \cup {encoded_id}
                    /\ repersisted' = repersisted \cup ({encoded_id} \cap persisted)
                    /\ data' = mark_cached(data, encoded_id, pay_date, json_path,
                                           NoPath, clock)
                    /\ marked' = [marked EXCEPT ![encoded_id] = @ + 1]
                    /\ newly_downloaded' = newly_downloaded + 1
                    /\ IF intr = "sleep"
                       THEN pc' = "idle" /\ result' = "KeyboardInterrupt"
                            /\ i' = i
                       ELSE pc' = "loop" /\ result' = result /\ i' = i + 1
                    /\ UNCHANGED <<index_file, failed>>
    /\ UNCHANGED <<remote, srv_total, missing, ret, clock, loaded,
                   hist, requests, page_lens, listVars, exVars, authVars>>
    /\ UNCHANGED <<flowVars, pollVars, pdfVars>>
    /\ UNCHANGED fetchVars
    /\ UNCHANGED pageVars
    /\ UNCHANGED concVars
    /\ UNCHANGED browserVars

\* sync_all after the loop: "Save final index" and the returned triple.
Finish ==
    /\ pc = "loop"
    /\ i > Len(missing)
    /\ data' = save(data, clock)
    /\ index_file' = SaveFinal(index_file, data, clock)
    /\ ret' = <<Len(all_payslips), Len(all_payslips) - Len(missing),
                newly_downloaded>>
    /\ result' = "returned"
    /\ pc' = "idle"
    /\ UNCHANGED <<remote, srv_total, files, missing, i, newly_downloaded,
                   expiry_signal, clock, loaded, fetched, marked, failed,
                   persisted, repersisted, hist, requests, page_lens, listVars,
                   exVars, authVars>>
    /\ UNCHANGED <<flowVars, pollVars, pdfVars>>
    /\ UNCHANGED fetchVars
    /\ UNCHANGED pageVars
    /\ UNCHANGED concVars
    /\ UNCHANGED browserVars

\* The environment between two invocations: a JSON artifact is deleted.
DeleteArtifact ==
    /\ pc = "idle"
    /\ clock < MaxRuns
    /\ \E p \in DOMAIN files :
          /\ p[2] = "json"
          /\ files' = Restrict(files, DOMAIN files \ {p})
          /\ persisted' = persisted \
                {remote[j].id : j \in {k \in DOMAIN remote :
                    _make_file_path(_get_pay_date(remote[k]), "json") = p}}
    /\ UNCHANGED <<remote, srv_total, pc, result, requests, page_lens,
                   index_file, data, missing, i, newly_downloaded, ret,
                   expiry_signal, clock, loaded, fetched, marked, failed,
                   repersisted, hist, listVars, exVars, authVars>>
    /\ UNCHANGED <<flowVars, pollVars, pdfVars>>
    /\ UNCHANGED fetchVars
    /\ UNCHANGED pageVars
    /\ UNCHANGED concVars
    /\ UNCHANGED browserVars

\* ===================================================== the sign-on protocol
\* authenticate (ihcm_auth.py): the pure-protocol sign-on, one request per
\* step, and the token polling loop of the browser login.

\* The Credential of the call.
username == "user@example.com"
password == "correct horse"

XSRF_TOKEN == "XSRF-TOKEN"
SSO_COOKIE == "k8Ksj346"
MASKED == "***MASKED***"

\* range(30) of the polling loop.
max_polls == 30

\* A response by what the flow reads of it: the status, the shape of the
\* body, the session field of a JSON body, whether the response (or its
\* redirect chain) sets the cookie the step is about, and access_token.
Response(st, bd, sess, ck, tok) ==
    [status |-> st, body |-> bd, session |-> sess, cookie |-> ck,
     token |-> tok]

CsrfResponses ==
    {Response(st, "empty", "none", ck, "none") :
        st \in {200, 500}, ck \in BOOLEAN}
StartResponses ==
    {Response(st, "object", sess, FALSE, "none") :
        st \in {200, 500}, sess \in {"none", "s1"}}
    \cup {Response(200, "garbage", "none", FALSE, "none")}
IdentifyResponses ==
    {Response(st, bd, "none", FALSE, "none") :
        st \in {200, 500}, bd \in {"empty", "object", "garbage", "number"}}
    \cup {Response(200, "object", "s2", FALSE, "none")}
ChallengeResponses ==
    {Response(st, bd, "none", ck, "none") :
        st \in {200, 401},
        bd \in {"empty", "object", "redirect", "failed", "error", "html",
               "list"},
        ck \in BOOLEAN}
AuthorizeResponses ==
    {Response(st, "html", "none", ck, "none") :
        st \in {200, 500}, ck \in BOOLEAN}
HomeResponses ==
    {Response(st, "html", "none", FALSE, "none") : st \in {200, 500}}
TokenResponses ==
    {Response(st, bd, "none", FALSE, "none") :
        st \in {200, 201, 401, 500},
        bd \in {"empty", "doctype", "DOCTYPE", "html", "object", "list"}}
    \cup {Response(st, "token", "none", FALSE, tok) :
            st \in {200, 201, 401, 500}, tok \in {"T1", "T2"}}

\* response.raise_for_status(): HTTPError for 4xx and 5xx only.
raise_for_status(r) == r.status >= 400

Ok(v) == [exc |-> "none", value |-> v]
Raise(e) == [exc |-> e, value |-> "none"]

\* get_csrf_token, given the cookie jar after the request.
get_csrf_token(r, cookies) ==
    IF raise_for_status(r) THEN Raise("HTTPError")
    ELSE IF XSRF_TOKEN \notin cookies THEN Raise("RuntimeError")
    ELSE Ok("csrf")

\* A slip: a response without session is passed on.
start_signin_unchecked(r) ==
    IF raise_for_status(r) THEN Raise("HTTPError")
    ELSE IF r.body = "garbage" THEN Raise("JSONDecodeError")
    ELSE Ok(r.session)

\* start_signin.
start_signin(r) ==
    IF raise_for_status(r) THEN Raise("HTTPError")
    ELSE IF r.body = "garbage" THEN Raise("JSONDecodeError")
    ELSE IF r.session = "none" THEN Raise("RuntimeError")
    ELSE Ok(r.session)

\* A slip: a body without session is an error.
identify_account_session_required(r, token) ==
    IF raise_for_status(r) THEN Raise("HTTPError")
    ELSE IF r.body = "object" /\ r.session # "none" THEN Ok(r.session)
    ELSE Raise("RuntimeError")

\* identify_account: the session token of the body if there is one, else
\* the one passed in (empty body, body that is not JSON, object without it);
\* "session" in data raises for a JSON number.
identify_account(r, token) ==
    IF raise_for_status(r) THEN Raise("HTTPError")
    ELSE IF r.body = "number" THEN Raise("TypeError")
    ELSE IF r.body = "object" /\ r.session # "none" THEN Ok(r.session)
    ELSE Ok(token)

\* A slip: the status and error fields of the body are not looked at.
respond_to_password_challenge_unchecked(r) ==
    IF raise_for_status(r) THEN Raise("HTTPError")
    ELSE IF r.body = "list" THEN Raise("AttributeError")
    ELSE IF r.body = "redirect" THEN Ok("redirectUrl")
    ELSE Ok("none")

\* respond_to_password_challenge: the redirect URL or None.
respond_to_password_challenge(r) ==
    IF raise_for_status(r) THEN Raise("HTTPError")
    ELSE IF r.body = "empty" THEN Ok("none")
    ELSE IF r.body = "html" THEN Ok("none")
    ELSE IF r.body = "list" THEN Raise("AttributeError")
    ELSE IF r.body \in {"failed", "error"} THEN Raise("RuntimeError")
    ELSE IF r.body = "redirect" THEN Ok("redirectUrl")
    ELSE Ok("none")

\* A slip: the cookie is not looked for.
sso_cookie_gate_skipped(cookies) == TRUE

\* establish_ihcm_session, "Verify we have the session cookie".
sso_cookie_gate(cookies) == SSO_COOKIE \in cookies

\* get_ihcm_bearer_token.  A body starting with "<!DOCTYPE" passes the
\* lower-case test and fails in response.json().
get_ihcm_bearer_token(r) ==
    IF r.status = 401 THEN Raise("RuntimeError")
    ELSE IF raise_for_status(r) THEN Raise("HTTPError")
    ELSE IF r.body = "empty" THEN Raise("RuntimeError")
    ELSE IF r.body \in {"doctype", "html"} THEN Raise("RuntimeError")
    ELSE IF r.body = "DOCTYPE" THEN Raise("JSONDecodeError")
    ELSE IF r.body = "list" THEN Raise("AttributeError")
    ELSE IF r.body = "object" THEN Raise("RuntimeError")
    ELSE Ok(r.token)

\* A request body as DebugLogger.log_request sees it: userId, the password
\* under response, and session ("" where the body has no such field).
Body(user, pass, sess) == [userId |-> user, password |-> pass, session |-> sess]

\* DebugLogger.log_request, the body it writes: the password under
\* response is replaced, everything else is dumped as it is.
log_request(body) ==
    IF body.password # "" THEN [body EXCEPT !.password = MASKED] ELSE body

\* The polling loop: for _ in range(30).
PollingContinues(n) == n < max_polls

\* A slip: the loop never breaks.
PollBreak_never(tok) == FALSE

\* The polling loop: if bearer_token: break.
PollBreak(tok) == tok \notin {"none", ""}

\* What one page.evaluate gives: an exception, null, an empty string, a
\* token.
PollOutcomes == {"raises", "none", "", "T1"}

NoResponse == Response(0, "none", "none", FALSE, "none")

FlowOrder ==
    <<"csrf", "start", "identify", "challenge", "authorize", "home", "token">>

\* The sign-on flow and the polling loop are not running.
SignOnOff ==
    /\ f_pc = "off"
    /\ jar = {}
    /\ authorization = "none"
    /\ session_token = "none"
    /\ f_trace = <<>>
    /\ f_resp = [s \in {FlowOrder[k] : k \in DOMAIN FlowOrder} |-> NoResponse]
    /\ f_exc = "none"
    /\ f_at = "none"
    /\ f_returned = FALSE
    /\ debug = FALSE
    /\ debug_entries = {}
    /\ poll_pc = "off"
    /\ polls = 0
    /\ polled_token = "none"
    /\ first_yield = 0

\* ------------------------------------------------- the two ids of one record
\* A listed record by the fields the ids come from: payDetailUri ("absent",
\* "nomatch" for a link without /payStatement/, or the id after it), the
\* first non-empty fallback id field ("" if none), and statementImageUri by
\* its shape and the two parts of its href.
ImageUri(k, s, im) == [kind |-> k, statement |-> s, image |-> im]

ImageUris ==
    {ImageUri(k, "none", "none") : k \in {"absent", "nopay", "noimages"}}
    \cup {ImageUri("notpdf", s, "none") : s \in {"", "S1"}}
    \cup {ImageUri("pdf", s, im) : s \in {"", "S1"}, im \in {"", "I1"}}

Payslips ==
    [payDetailUri : {"absent", "nomatch", "D1", "D2"},
     id : {"", "F1"},
     statementImageUri : ImageUris]

NoPayslip ==
    [payDetailUri |-> "absent", id |-> "",
     statementImageUri |-> ImageUri("absent", "none", "none")]

\* Python truth of an optional string.
Truthy(x) == x \notin {"none", ""}

\* PayslipSyncer._get_encoded_id on the fields of a record.
_get_encoded_id_fields(payslip) ==
    IF payslip.payDetailUri \notin {"absent", "nomatch"}
    THEN Ok(payslip.payDetailUri)
    ELSE IF payslip.id # "" THEN Ok(payslip.id)
    ELSE Raise("ValueError")

\* A slip: the statement id is taken from the detail link.
_get_pdf_info_from_detail(payslip) ==
    LET uri == payslip.statementImageUri
    IN  IF uri.kind \in {"notpdf", "pdf"}
        THEN <<payslip.payDetailUri,
               IF uri.kind = "pdf" THEN uri.image ELSE "none">>
        ELSE <<"none", "none">>

\* PayslipSyncer._get_pdf_info: (statement_id, image_id).
_get_pdf_info(payslip) ==
    LET uri == payslip.statementImageUri
    IN  IF uri.kind \in {"notpdf", "pdf"}
        THEN <<uri.statement, IF uri.kind = "pdf" THEN uri.image ELSE "none">>
        ELSE <<"none", "none">>

\* PayslipSyncer._build_pdf_api_url, by its query.
_build_pdf_api_url(statement_id, image_id) ==
    [statementId |-> statement_id, imageId |-> image_id, imageType |-> "pdf"]

NoUrl == _build_pdf_api_url("none", "none")

\* No record is being worked on.
PdfOff ==
    /\ r_pc = "off"
    /\ ps_record = NoPayslip
    /\ skip_pdf = FALSE
    /\ ps_encoded_id = "none"
    /\ ps_pdf_info = <<"none", "none">>
    /\ detail_requested = "none"
    /\ pdf_requested = NoUrl
    /\ index_key = "none"
    /\ pdf_rel_path = FALSE

\* ------------------------------------------------ responses by their text
\* An authenticated response: the status and how response.text.strip()
\* begins (a JSON document, a login page with the doctype marker in lower
\* or upper case or starting at the html tag, text that is neither).
Texts == {"json", "<!doctype", "<!DOCTYPE", "<html", "<HTML", "garbage"}
TextResponses == [status : {200, 401, 404, 500}, text : Texts]

\* The text of an encoded id, by what the expiry test of sync_all can find
\* in it.
IdTexts == {"plain", "has 401", "has expired"}

\* The message of a RuntimeError, by what it is and whether str(e) holds
\* "401" and whether str(e).lower() holds "expired".
Message(k, n, x) == [kind |-> k, has_401 |-> n, has_expired |-> x]
NoMessage == Message("none", FALSE, FALSE)

Returned(v) == [exc |-> "none", msg |-> NoMessage, value |-> v]
Raises(e, m) == [exc |-> e, msg |-> m, value |-> "none"]
NoOutcome == Returned("none")

\* PayslipSyncer._check_session_valid on the text of the response.
\* The message for 401 reads "Authentication failed (401). Session may have
\* expired."; the one for a login page "Session expired - ...".
CheckSessionValid(r) ==
    IF r.status = 401
    THEN Raises("RuntimeError", Message("auth 401", TRUE, TRUE))
    ELSE IF r.text \in {"<!doctype", "<!DOCTYPE", "<html"}
    THEN Raises("RuntimeError", Message("login page", FALSE, TRUE))
    ELSE Returned("valid")

\* PayslipSyncer.fetch_payslip_detail with the text of its messages:
\* "Payslip not found: {encoded_id}" holds the id.
FetchPayslipDetail(r, id) ==
    LET valid == CheckSessionValid(r)
    IN  IF valid.exc # "none" THEN valid
        ELSE IF r.status = 404
        THEN Raises("RuntimeError",
                    Message("not found", id = "has 401", id = "has expired"))
        ELSE IF r.status # 200
        THEN Raises("RuntimeError", Message("http status", FALSE, FALSE))
        ELSE IF r.text = "json" THEN Returned("detail")
        ELSE Raises("JSONDecodeError", NoMessage)

\* PayslipSyncer.list_all_payslips, one page request.
QueryPayslips(r) ==
    LET valid == CheckSessionValid(r)
    IN  IF valid.exc # "none" THEN valid
        ELSE IF r.status # 200
        THEN Raises("RuntimeError", Message("http status", FALSE, FALSE))
        ELSE IF r.text = "json" THEN Returned("page")
        ELSE Raises("RuntimeError", Message("invalid json", FALSE, FALSE))

\* IHCMExtractor.fetch_batch: the login page test is
\* startswith('<!doctype') or startswith('<html'), after the status tests.
fetch_batch(r) ==
    IF r.status = 401
    THEN Raises("RuntimeError", Message("auth 401", TRUE, TRUE))
    ELSE IF r.status # 200
    THEN Raises("RuntimeError", Message("http status", FALSE, FALSE))
    ELSE IF r.text \in {"<!doctype", "<html"}
    THEN Raises("RuntimeError", Message("login page", FALSE, TRUE))
    ELSE IF r.text = "json" THEN Returned("batch")
    ELSE Raises("JSONDecodeError", NoMessage)

\* sync_all, except RuntimeError: "401" in str(e) or "expired" in
\* str(e).lower(), on the text of the message.
ExpiryInMessage(m) == m.has_401 \/ m.has_expired

\* The answer _validate_session sees in a response.
AnswerOf(r) ==
    CASE r.status = 200 -> "200" [] r.status = 401 -> "401" [] OTHER -> "500"

\* No authenticated request is being looked at.
FetchOff ==
    /\ q_pc = "off"
    /\ q_fetcher = "none"
    /\ q_response = [status |-> 0, text |-> "json"]
    /\ q_id = "plain"
    /\ q_outcome = NoOutcome
    /\ q_aborted = FALSE

\* ------------------------------------------------- the two listing loops
\* A page response of the shape {data, total}: the number of records in
\* data and the total (-1: the total key is missing).
PageResponses == [n : 0..MaxBatch, total : (-1)..MaxListed]

\* The records of the k-th response.
PageRecords(k, n) == [j \in 1..n |-> <<k, j>>]

Paginators == {"list_all_payslips", "extract_all"}

\* A loop before its first request: start = 0; total is None (-1) in
\* extract_all and unset in list_all_payslips.
LoopStart ==
    [pc |-> "run", all |-> <<>>, start |-> 0, total |-> -1, starts |-> <<>>]

\* One turn of the loop of PayslipSyncer.list_all_payslips on the k-th
\* response: total is read from every page, len(batch) when it is missing.
list_all_payslips_turn(st, k, r) ==
    LET batch == PageRecords(k, r.n)
        tot == IF r.total = -1 THEN Len(batch) ELSE r.total
        acc == st.all \o batch
    IN  [pc |-> IF Len(acc) >= tot \/ Len(batch) = 0 THEN "returned" ELSE "run",
         all |-> acc,
         start |-> IF Len(acc) >= tot \/ Len(batch) = 0
                   THEN st.start ELSE st.start + Len(batch),
         total |-> tot,
         starts |-> Append(st.starts, st.start)]

\* One turn of the loop of IHCMExtractor.extract_all (the same loop is in
\* PeopleHomeExtractor.extract_all): total is fixed by the first page, 0
\* when it is missing.
extract_all_turn(st, k, r) ==
    LET batch == PageRecords(k, r.n)
        reported_total == IF r.total = -1 THEN 0 ELSE r.total
        tot == IF st.total = -1 THEN reported_total ELSE st.total
        acc == st.all \o batch
    IN  IF Len(batch) = 0
        THEN [st EXCEPT !.pc = "returned", !.total = tot,
                        !.starts = Append(st.starts, st.start)]
        ELSE [pc |-> IF Len(acc) >= tot THEN "returned" ELSE "run",
              all |-> acc,
              start |-> IF Len(acc) >= tot
                        THEN st.start ELSE st.start + Len(batch),
              total |-> tot,
              starts |-> Append(st.starts, st.start)]

\* The listing loops are not running.
PageOff ==
    /\ pg = [l \in Paginators |-> [LoopStart EXCEPT !.pc = "off"]]
    /\ first_total = -1
    /\ totals = {}

\* ----------------------------------------- two invocations, one directory
Syncers == {"A", "B"}

\* An invocation before index.load().
SyncerStart ==
    [pc |-> "load", data |-> EmptyIndex, missing |-> <<>>, i |-> 1,
     fetched |-> {}]

\* A slip: save keeps the entries the file holds and the index lacks.
write_index_merging(file, d, now) ==
    IndexFileAfterSave(
        [d EXCEPT !.payslips =
            [n \in (DOMAIN d.payslips) \cup (DOMAIN load(file).payslips) |->
                IF n \in DOMAIN d.payslips THEN d.payslips[n]
                ELSE load(file).payslips[n]]], now)

\* PayslipIndex.save on a file another invocation may have written:
\* write_text replaces the content by the invocation's own _data.
write_index(file, d, now) == IndexFileAfterSave(d, now)

\* The stamp of an invocation's save and mark_cached.
StampOf(p) == IF p = "A" THEN 1 ELSE 2

\* No second invocation.
ConcOff ==
    /\ syncers = [p \in Syncers |-> [SyncerStart EXCEPT !.pc = "off"]]
    /\ disk_index = NoIndexFile
    /\ disk_files = <<>>
    /\ last_writer = "none"
    /\ written = [p \in Syncers |-> <<>>]

\* --------------------------------------------------- the kept-alive browser
\* _authenticate_with_browser_kept_alive, in order: the calls before the
\* try statement, then the calls of its body.
BeforeTry == <<"start", "launch", "new_context", "new_page", "apply_stealth">>
TryBody ==
    <<"goto", "username", "next", "password", "submit", "poll", "cookies",
      "page_close">>
LoginSteps == BeforeTry \o TryBody

StepIndex(step) == CHOOSE k \in 1..Len(LoginSteps) : LoginSteps[k] = step
InTry(step) == StepIndex(step) > Len(BeforeTry)

\* What a call of the login can raise.
BrowserErrors == {"PlaywrightTimeout", "Exception"}

\* AuthResult: which of _browser, _playwright and browser_context are set.
AuthResultOf(b, pw, ctx) ==
    [_browser |-> b, _playwright |-> pw, browser_context |-> ctx]
NoAuthResult == AuthResultOf(FALSE, FALSE, FALSE)

\* The processes after the except clauses of the login: browser.close(),
\* p.stop().
CloseOnError(br, pw) == [browser |-> "closed", playwright |-> "stopped"]

\* AuthResult.close_browser: the result and the processes after the call.
close_browser(res, br, pw) ==
    [res |-> AuthResultOf(FALSE, FALSE,
                          IF res._browser THEN FALSE ELSE res.browser_context),
     browser |-> IF res._browser THEN "closed" ELSE br,
     playwright |-> IF res._playwright THEN "stopped" ELSE pw]

\* The exception that leaves the login when a call raises e: the except
\* clauses turn what the try body raises into a RuntimeError.
Propagated(step, e) ==
    [step |-> step,
     exc |-> IF InTry(step) THEN "RuntimeError" ELSE e,
     msg |-> IF ~InTry(step) THEN "none"
             ELSE IF e = "PlaywrightTimeout" THEN "Authentication timed out"
             ELSE "Authentication failed"]
NoFailure == [step |-> "none", exc |-> "none", msg |-> "none"]

NotClosed == [res |-> NoAuthResult, browser |-> "none", playwright |-> "none"]

\* main is not running.
BrowserOff ==
    /\ b_pc = "off"
    /\ b_use_cache = FALSE
    /\ browser = "none"
    /\ playwright = "none"
    /\ login_result = NoAuthResult
    /\ auth_result = NoAuthResult
    /\ raised_at = NoFailure
    /\ main_ret = -1
    /\ after_close = NotClosed

\* ----------------------------------------------------------- specification
InitCommon ==
    /\ index_file = NoIndexFile
    /\ files = <<>>
    /\ data = EmptyIndex
    /\ all_payslips = <<>>
    /\ start = 0
    /\ total = 0
    /\ batch_len = 0
    /\ requests = 0
    /\ page_lens = <<>>
    /\ missing = <<>>
    /\ i = 1
    /\ newly_downloaded = 0
    /\ ret = <<>>
    /\ result = "none"
    /\ expiry_signal = FALSE
    /\ clock = 0
    /\ loaded = <<>>
    /\ fetched = Zero
    /\ marked = Zero
    /\ failed = {}
    /\ persisted = {}
    /\ repersisted = {}
    /\ hist = NoHist
    /\ all_employees = <<>>
    /\ ex_start = 0
    /\ ex_total = -1

\* The payslip program before its first sync_all, no cache directory yet.
Init ==
    /\ InitCommon
    /\ AuthInit
    /\ BrowserOff
    /\ ConcOff
    /\ PageOff
    /\ FetchOff
    /\ SignOnOff
    /\ PdfOff
    /\ remote \in Collections(MaxRecords)
    /\ srv_total = Len(remote)
    /\ pc = "idle"
    /\ ex_pc = "off"
    /\ ex_batch_size = 0

Next ==
    \/ StartSync
    \/ ListPage
    \/ Partition
    \/ FetchRecord
    \/ Finish
    \/ DeleteArtifact

Spec == Init /\ [][Next]_vars

\* ------------------------------------------------------------ IHCMExtractor
\* One iteration of the loop of IHCMExtractor.extract_all: fetch_batch(start)
\* and what the loop does with it.  kind: a dict with data and total, a dict
\* without total (total defaults to 0), or an answer that makes fetch_batch
\* raise (401, other status, login page, bad JSON).
ExtractPage ==
    /\ ex_pc = "page"
    /\ requests' = requests + 1
    /\ \E kind \in {"dict", "nototal", "error"},
          m \in PageLengths(ex_start, ex_batch_size) :
          LET batch == PageAt(ex_start, m)
              reported_total == IF kind = "dict" THEN srv_total ELSE 0
              tot == IF ex_total = -1 THEN reported_total ELSE ex_total
              progress == Len(all_employees \o batch)
          IN  \/ /\ kind = "error"
                 /\ ex_pc' = "raised"
                 /\ UNCHANGED <<all_employees, ex_start, ex_total, page_lens>>
              \/ /\ kind # "error"
                 /\ ex_total' = tot
                 /\ page_lens' = Append(page_lens, Len(batch))
                 /\ IF batch = <<>>
                    THEN /\ ex_pc' = "returned"
                         /\ UNCHANGED <<all_employees, ex_start>>
                    ELSE /\ all_employees' = all_employees \o batch
                         /\ IF progress >= tot
                            THEN ex_pc' = "returned" /\ ex_start' = ex_start
                            ELSE ex_pc' = "page"
                                 /\ ex_start' = ex_start + Len(batch)
    /\ UNCHANGED <<remote, srv_total, pc, result, syncVars, listVars,
                   ex_batch_size, authVars>>
    /\ UNCHANGED <<flowVars, pollVars, pdfVars>>
    /\ UNCHANGED fetchVars
    /\ UNCHANGED pageVars
    /\ UNCHANGED concVars
    /\ UNCHANGED browserVars

\* The listing programs on their own: list_all_payslips (as called by
\* _get_pdf_statement_ids) or extract_all with a batch size, against a
\* collection whose reported total may differ from what the server delivers.
InitList ==
    /\ InitCommon
    /\ AuthInit
    /\ BrowserOff
    /\ ConcOff
    /\ PageOff
    /\ FetchOff
    /\ SignOnOff
    /\ PdfOff
    /\ remote \in { [j \in 1..k |-> RecordOf(j, 1, TRUE)] : k \in 0..MaxListed }
    /\ srv_total \in 0..MaxListed
    /\ \/ pc = "list" /\ ex_pc = "off" /\ ex_batch_size = 0
       \/ pc = "off" /\ ex_pc = "page" /\ ex_batch_size \in 1..MaxBatch

NextList ==
    \/ ListPage
    \/ ExtractPage

SpecList == InitList /\ [][NextList]_vars

\* ------------------------------------------------------- session entry points
\* An entry point is called: create_authenticated_session ("protocol"),
\* create_authenticated_session_playwright or
\* create_authenticated_session_with_browser, the latter two with use_cache.
\* The browser entry points go to the cache first when use_cache is set.
AuthCall ==
    /\ a_pc = "idle"
    /\ calls < MaxCalls
    /\ calls' = calls + 1
    /\ \E e \in EntryPoints, uc \in BOOLEAN :
          /\ e = "protocol" => uc
          /\ entry' = e
          /\ use_cache' = uc
          /\ a_pc' = IF e # "protocol" /\ uc THEN "load" ELSE "creds"
    /\ a_result' = "running"
    /\ a_exc' = "none"
    /\ a_at' = "none"
    /\ cache_data' = NoContent
    /\ cache_found' = FALSE
    /\ validations' = 0
    /\ validated' = "none"
    /\ browser_launched' = FALSE
    /\ creds_requested' = FALSE
    /\ client' = NoClient
    /\ store_ops' = {}
    /\ file_at_call' = session_file
    /\ checked' = NoCheck
    /\ UNCHANGED <<session_file, umask>>
    /\ UNCHANGED <<remote, srv_total, pc, result, requests, page_lens,
                   syncVars, listVars, exVars>>
    /\ UNCHANGED <<flowVars, pollVars, pdfVars>>
    /\ UNCHANGED fetchVars
    /\ UNCHANGED pageVars
    /\ UNCHANGED concVars
    /\ UNCHANGED browserVars

\* cache_data = cache.load().
LoadCache ==
    /\ a_pc = "load"
    /\ LET got == SessionCache_load(session_file)
       IN  /\ session_file' = got.file
           /\ store_ops' = store_ops \cup {"load"}
           /\ cache_found' = got.found
           /\ cache_data' = IF got.found THEN got.file.content ELSE NoContent
           /\ IF got.exc # "none"
              THEN /\ a_pc' = "idle"
                   /\ a_result' = "raised"
                   /\ a_exc' = got.exc
                   /\ a_at' = "load"
              ELSE /\ a_pc' = IF got.found THEN "jwt" ELSE "creds"
                   /\ UNCHANGED <<a_result, a_exc, a_at>>
    /\ UNCHANGED <<umask, calls, entry, use_cache, validations, validated,
                   browser_launched, creds_requested, client, file_at_call,
                   checked>>
    /\ UNCHANGED <<remote, srv_total, pc, result, requests, page_lens,
                   syncVars, listVars, exVars>>
    /\ UNCHANGED <<flowVars, pollVars, pdfVars>>
    /\ UNCHANGED fetchVars
    /\ UNCHANGED pageVars
    /\ UNCHANGED concVars
    /\ UNCHANGED browserVars

\* token_expired = cache.is_token_expired(cache_data['bearer_token']): the
\* value is only printed; an exception leaves the entry point.
CheckToken ==
    /\ a_pc = "jwt"
    /\ \E now \in Nows :
          LET res == is_token_expired(cache_data.bearer_token, now)
          IN  /\ checked' = [done |-> TRUE, now |-> now, res |-> res]
              /\ IF res.exc # "none"
                 THEN /\ a_pc' = "idle"
                      /\ a_result' = "raised"
                      /\ a_exc' = res.exc
                      /\ a_at' = "jwt"
                 ELSE /\ a_pc' = "validate"
                      /\ UNCHANGED <<a_result, a_exc, a_at>>
    /\ UNCHANGED <<session_file, umask, calls, entry, use_cache, cache_data,
                   cache_found, validations, validated, browser_launched,
                   creds_requested, client, store_ops, file_at_call>>
    /\ UNCHANGED <<remote, srv_total, pc, result, requests, page_lens,
                   syncVars, listVars, exVars>>
    /\ UNCHANGED <<flowVars, pollVars, pdfVars>>
    /\ UNCHANGED fetchVars
    /\ UNCHANGED pageVars
    /\ UNCHANGED concVars
    /\ UNCHANGED browserVars

\* The session is rebuilt from the cache and validated with one GET: on
\* success the timestamp is updated and the session returned (with_browser:
\* AuthResult(session=session)), on failure the cache is cleared.
ValidateCached ==
    /\ a_pc = "validate"
    /\ validations' = validations + 1
    /\ \E answer \in ValidationAnswers :
          IF _validate_session(answer)
          THEN /\ validated' = "ok"
               /\ session_file' = update_last_validated(session_file, calls)
               /\ store_ops' = store_ops \cup {"update"}
               /\ client' = _reconstruct_session_from_cache(cache_data)
               /\ a_pc' = "idle"
               /\ a_result' = "returned"
          ELSE /\ validated' = "failed"
               /\ session_file' = SessionCache_clear(session_file)
               /\ store_ops' = store_ops \cup {"clear"}
               /\ a_pc' = "creds"
               /\ UNCHANGED <<client, a_result>>
    /\ UNCHANGED <<umask, calls, entry, use_cache, cache_data, cache_found,
                   browser_launched, creds_requested, a_exc, a_at,
                   file_at_call, checked>>
    /\ UNCHANGED <<remote, srv_total, pc, result, requests, page_lens,
                   syncVars, listVars, exVars>>
    /\ UNCHANGED <<flowVars, pollVars, pdfVars>>
    /\ UNCHANGED fetchVars
    /\ UNCHANGED pageVars
    /\ UNCHANGED concVars
    /\ UNCHANGED browserVars

\* username, password = get_credentials(...): 1Password or the prompt; it
\* raises when no credentials are to be had.
GetCredentials ==
    /\ a_pc = "creds"
    /\ creds_requested' = TRUE
    /\ \E got \in BOOLEAN :
          IF got
          THEN a_pc' = "login" /\ UNCHANGED <<a_result, a_exc, a_at>>
          ELSE /\ a_pc' = "idle"
               /\ a_result' = "raised"
               /\ a_exc' = "ValueError"
               /\ a_at' = "creds"
    /\ UNCHANGED <<session_file, umask, calls, entry, use_cache, cache_data,
                   cache_found, validations, validated, browser_launched,
                   client, store_ops, file_at_call, checked>>
    /\ UNCHANGED <<remote, srv_total, pc, result, requests, page_lens,
                   syncVars, listVars, exVars>>
    /\ UNCHANGED <<flowVars, pollVars, pdfVars>>
    /\ UNCHANGED fetchVars
    /\ UNCHANGED pageVars
    /\ UNCHANGED concVars
    /\ UNCHANGED browserVars

\* The fresh login: authenticate, authenticate_with_playwright or
\* _authenticate_with_browser_kept_alive.  The server decides the bearer
\* token and the cookies; a failed login raises RuntimeError.
Login ==
    /\ a_pc = "login"
    /\ browser_launched' = (entry # "protocol")
    /\ \E ok \in BOOLEAN, tok \in Tokens, ck \in Cookies :
          IF ok
          THEN /\ client' = [bearer_token |-> tok, cookies |-> ck,
                             browser_context |-> (entry = "with_browser"),
                             source |-> "login"]
               /\ IF ShouldSave(entry, use_cache)
                  THEN a_pc' = "save_write" /\ a_result' = a_result
                  ELSE a_pc' = "idle" /\ a_result' = "returned"
               /\ UNCHANGED <<a_exc, a_at>>
          ELSE /\ a_pc' = "idle"
               /\ a_result' = "raised"
               /\ a_exc' = "RuntimeError"
               /\ a_at' = "login"
               /\ UNCHANGED client
    /\ UNCHANGED <<session_file, umask, calls, entry, use_cache, cache_data,
                   cache_found, validations, validated, creds_requested,
                   store_ops, file_at_call, checked>>
    /\ UNCHANGED <<remote, srv_total, pc, result, requests, page_lens,
                   syncVars, listVars, exVars>>
    /\ UNCHANGED <<flowVars, pollVars, pdfVars>>
    /\ UNCHANGED fetchVars
    /\ UNCHANGED pageVars
    /\ UNCHANGED concVars
    /\ UNCHANGED browserVars

\* cache.save: mkdir and CACHE_FILE.write_text(...).
SaveWrite ==
    /\ a_pc = "save_write"
    /\ session_file' = SessionCache_save_write(session_file, umask,
                            client.bearer_token, client.cookies, calls)
    /\ store_ops' = store_ops \cup {"save"}
    /\ a_pc' = "save_chmod"
    /\ UNCHANGED <<umask, calls, entry, use_cache, cache_data, cache_found,
                   validations, validated, browser_launched, creds_requested,
                   client, a_result, a_exc, a_at, file_at_call, checked>>
    /\ UNCHANGED <<remote, srv_total, pc, result, requests, page_lens,
                   syncVars, listVars, exVars>>
    /\ UNCHANGED <<flowVars, pollVars, pdfVars>>
    /\ UNCHANGED fetchVars
    /\ UNCHANGED pageVars
    /\ UNCHANGED concVars
    /\ UNCHANGED browserVars

\* cache.save: CACHE_FILE.chmod(0o600), and the entry point returns.
SaveChmod ==
    /\ a_pc = "save_chmod"
    /\ session_file' = SessionCache_save_chmod(session_file)
    /\ a_pc' = "idle"
    /\ a_result' = "returned"
    /\ UNCHANGED <<umask, calls, entry, use_cache, cache_data, cache_found,
                   validations, validated, browser_launched, creds_requested,
                   client, a_exc, a_at, store_ops, file_at_call, checked>>
    /\ UNCHANGED <<remote, srv_total, pc, result, requests, page_lens,
                   syncVars, listVars, exVars>>
    /\ UNCHANGED <<flowVars, pollVars, pdfVars>>
    /\ UNCHANGED fetchVars
    /\ UNCHANGED pageVars
    /\ UNCHANGED concVars
    /\ UNCHANGED browserVars

\* The environment between two calls: the session file is damaged (a
\* truncated write, an edit), its mode unchanged.
CorruptFile ==
    /\ a_pc = "idle"
    /\ calls < MaxCalls
    /\ session_file.exists
    /\ session_file.content.json = "object"
    /\ session_file.content.lacks = {}
    /\ \E c \in BrokenContents :
          session_file' = [session_file EXCEPT !.content = c]
    /\ UNCHANGED <<umask, calls, entry, use_cache, cache_data, cache_found,
                   validations, validated, browser_launched, creds_requested,
                   client, a_pc, a_result, a_exc, a_at, store_ops,
                   file_at_call, checked>>
    /\ UNCHANGED <<remote, srv_total, pc, result, requests, page_lens,
                   syncVars, listVars, exVars>>
    /\ UNCHANGED <<flowVars, pollVars, pdfVars>>
    /\ UNCHANGED fetchVars
    /\ UNCHANGED pageVars
    /\ UNCHANGED concVars
    /\ UNCHANGED browserVars

InitAuth ==
    /\ InitCommon
    /\ AuthInit
    /\ BrowserOff
    /\ ConcOff
    /\ PageOff
    /\ FetchOff
    /\ SignOnOff
    /\ PdfOff
    /\ remote = <<>>
    /\ srv_total = 0
    /\ pc = "off"
    /\ ex_pc = "off"
    /\ ex_batch_size = 0

NextAuth ==
    \/ AuthCall
    \/ LoadCache
    \/ CheckToken
    \/ ValidateCached
    \/ GetCredentials
    \/ Login
    \/ SaveWrite
    \/ SaveChmod
    \/ CorruptFile

SpecAuth == InitAuth /\ [][NextAuth]_vars

\* ------------------------------------------------------- authenticate, steps
\* Every step logs its request (log_request), sends it, takes the cookies
\* of the response into the jar, and raises or hands its artifact on.
Request(step, body, r) ==
    /\ f_trace' = Append(f_trace, step)
    /\ f_resp' = [f_resp EXCEPT ![step] = r]
    /\ debug_entries' =
          IF debug /\ body # Body("", "", "")
          THEN debug_entries \cup {log_request(body)}
          ELSE debug_entries

\* An exception leaves authenticate through the finally clause.
Raised(step, e) ==
    /\ f_pc' = "failed"
    /\ f_exc' = e
    /\ f_at' = step

GetCsrf ==
    /\ f_pc = "csrf"
    /\ \E r \in CsrfResponses :
          LET cookies == IF r.cookie THEN jar \cup {XSRF_TOKEN} ELSE jar
              res == get_csrf_token(r, cookies)
          IN /\ Request("csrf", Body("", "", ""), r)
             /\ jar' = cookies
             /\ IF res.exc # "none"
                THEN Raised("csrf", res.exc)
                ELSE f_pc' = "start" /\ UNCHANGED <<f_exc, f_at>>
    /\ UNCHANGED <<authorization, session_token, f_returned, debug>>
    /\ UNCHANGED <<pollVars, pdfVars, mainVars>>
    /\ UNCHANGED fetchVars
    /\ UNCHANGED pageVars
    /\ UNCHANGED concVars
    /\ UNCHANGED browserVars

StartSignin ==
    /\ f_pc = "start"
    /\ \E r \in StartResponses :
          LET res == start_signin(r)
          IN /\ Request("start", Body("", "", ""), r)
             /\ IF res.exc # "none"
                THEN Raised("start", res.exc) /\ UNCHANGED session_token
                ELSE /\ f_pc' = "identify"
                     /\ session_token' = res.value
                     /\ UNCHANGED <<f_exc, f_at>>
    /\ UNCHANGED <<jar, authorization, f_returned, debug>>
    /\ UNCHANGED <<pollVars, pdfVars, mainVars>>
    /\ UNCHANGED fetchVars
    /\ UNCHANGED pageVars
    /\ UNCHANGED concVars
    /\ UNCHANGED browserVars

IdentifyAccount ==
    /\ f_pc = "identify"
    /\ \E r \in IdentifyResponses :
          LET res == identify_account(r, session_token)
          IN /\ Request("identify", Body(username, "", session_token), r)
             /\ IF res.exc # "none"
                THEN Raised("identify", res.exc) /\ UNCHANGED session_token
                ELSE /\ f_pc' = "challenge"
                     /\ session_token' = res.value
                     /\ UNCHANGED <<f_exc, f_at>>
    /\ UNCHANGED <<jar, authorization, f_returned, debug>>
    /\ UNCHANGED <<pollVars, pdfVars, mainVars>>
    /\ UNCHANGED fetchVars
    /\ UNCHANGED pageVars
    /\ UNCHANGED concVars
    /\ UNCHANGED browserVars

PasswordChallenge ==
    /\ f_pc = "challenge"
    /\ \E r \in ChallengeResponses :
          LET res == respond_to_password_challenge(r)
          IN /\ Request("challenge", Body("", password, session_token), r)
             /\ jar' = IF r.cookie THEN jar \cup {SSO_COOKIE} ELSE jar
             /\ IF res.exc # "none"
                THEN Raised("challenge", res.exc)
                ELSE f_pc' = "authorize" /\ UNCHANGED <<f_exc, f_at>>
    /\ UNCHANGED <<authorization, session_token, f_returned, debug>>
    /\ UNCHANGED <<pollVars, pdfVars, mainVars>>
    /\ UNCHANGED fetchVars
    /\ UNCHANGED pageVars
    /\ UNCHANGED concVars
    /\ UNCHANGED browserVars

\* establish_ihcm_session up to the cookie gate: the authorize request,
\* whose status is not looked at.
SsoAuthorize ==
    /\ f_pc = "authorize"
    /\ \E r \in AuthorizeResponses :
          LET cookies == IF r.cookie THEN jar \cup {SSO_COOKIE} ELSE jar
          IN /\ Request("authorize", Body("", "", ""), r)
             /\ jar' = cookies
             /\ IF sso_cookie_gate(cookies)
                THEN f_pc' = "home" /\ UNCHANGED <<f_exc, f_at>>
                ELSE Raised("authorize", "RuntimeError")
    /\ UNCHANGED <<authorization, session_token, f_returned, debug>>
    /\ UNCHANGED <<pollVars, pdfVars, mainVars>>
    /\ UNCHANGED fetchVars
    /\ UNCHANGED pageVars
    /\ UNCHANGED concVars
    /\ UNCHANGED browserVars

\* establish_ihcm_session, the request for the home page; its response is
\* only logged.
AccessHome ==
    /\ f_pc = "home"
    /\ \E r \in HomeResponses : Request("home", Body("", "", ""), r)
    /\ f_pc' = "token"
    /\ UNCHANGED <<jar, authorization, session_token, f_exc, f_at,
                   f_returned, debug>>
    /\ UNCHANGED <<pollVars, pdfVars, mainVars>>
    /\ UNCHANGED fetchVars
    /\ UNCHANGED pageVars
    /\ UNCHANGED concVars
    /\ UNCHANGED browserVars

\* establish_ihcm_session, the token exchange and the Authorization header;
\* authenticate then returns the session.
TokenExchange ==
    /\ f_pc = "token"
    /\ \E r \in TokenResponses :
          LET res == get_ihcm_bearer_token(r)
          IN /\ Request("token", Body("", "", ""), r)
             /\ IF res.exc # "none"
                THEN /\ Raised("token", res.exc)
                     /\ UNCHANGED <<authorization, f_returned>>
                ELSE /\ f_pc' = "done"
                     /\ authorization' = res.value
                     /\ f_returned' = TRUE
                     /\ UNCHANGED <<f_exc, f_at>>
    /\ UNCHANGED <<jar, session_token, debug>>
    /\ UNCHANGED <<pollVars, pdfVars, mainVars>>
    /\ UNCHANGED fetchVars
    /\ UNCHANGED pageVars
    /\ UNCHANGED concVars
    /\ UNCHANGED browserVars

\* ------------------------------------------------ browser login, token polling
\* One turn of the loop: sleep, page.evaluate, break on a token; an
\* exception of page.evaluate is swallowed.
Poll ==
    /\ poll_pc = "poll"
    /\ PollingContinues(polls)
    /\ \E o \in PollOutcomes :
          LET tok == IF o = "raises" THEN polled_token ELSE o
          IN /\ polls' = polls + 1
             /\ polled_token' = tok
             /\ first_yield' =
                   IF first_yield = 0 /\ o \notin {"raises", "none", ""}
                   THEN polls + 1 ELSE first_yield
             /\ poll_pc' = IF o # "raises" /\ PollBreak(tok)
                           THEN "after" ELSE "poll"
    /\ UNCHANGED <<flowVars, pdfVars, mainVars>>
    /\ UNCHANGED fetchVars
    /\ UNCHANGED pageVars
    /\ UNCHANGED concVars
    /\ UNCHANGED browserVars

\* The loop has run out.
PollExhausted ==
    /\ poll_pc = "poll"
    /\ ~PollingContinues(polls)
    /\ poll_pc' = "after"
    /\ UNCHANGED <<polls, polled_token, first_yield>>
    /\ UNCHANGED <<flowVars, pdfVars, mainVars>>
    /\ UNCHANGED fetchVars
    /\ UNCHANGED pageVars
    /\ UNCHANGED concVars
    /\ UNCHANGED browserVars

\* if not bearer_token: raise RuntimeError.
PollResult ==
    /\ poll_pc = "after"
    /\ poll_pc' = IF polled_token \in {"none", ""} THEN "failed" ELSE "acquired"
    /\ UNCHANGED <<polls, polled_token, first_yield>>
    /\ UNCHANGED <<flowVars, pdfVars, mainVars>>
    /\ UNCHANGED fetchVars
    /\ UNCHANGED pageVars
    /\ UNCHANGED concVars
    /\ UNCHANGED browserVars

InitSignOn ==
    /\ InitCommon
    /\ AuthInit
    /\ BrowserOff
    /\ ConcOff
    /\ PageOff
    /\ FetchOff
    /\ remote = <<>>
    /\ srv_total = 0
    /\ pc = "off"
    /\ ex_pc = "off"
    /\ ex_batch_size = 0
    /\ PdfOff
    /\ \E mode \in {"flow", "poll"} :
          /\ f_pc = (IF mode = "flow" THEN "csrf" ELSE "off")
          /\ poll_pc = (IF mode = "poll" THEN "poll" ELSE "off")
    /\ debug \in (IF f_pc = "off" THEN {FALSE} ELSE BOOLEAN)
    /\ jar = {}
    /\ authorization = "none"
    /\ session_token = "none"
    /\ f_trace = <<>>
    /\ f_resp = [s \in {FlowOrder[k] : k \in DOMAIN FlowOrder} |-> NoResponse]
    /\ f_exc = "none"
    /\ f_at = "none"
    /\ f_returned = FALSE
    /\ debug_entries = {}
    /\ polls = 0
    /\ polled_token = "none"
    /\ first_yield = 0

NextSignOn ==
    \/ GetCsrf
    \/ StartSignin
    \/ IdentifyAccount
    \/ PasswordChallenge
    \/ SsoAuthorize
    \/ AccessHome
    \/ TokenExchange
    \/ Poll
    \/ PollExhausted
    \/ PollResult

SpecSignOn == InitSignOn /\ [][NextSignOn]_vars

\* The loop's turns are taken: time.sleep(1) returns.
SpecSignOnFair ==
    SpecSignOn /\ WF_vars(Poll) /\ WF_vars(PollExhausted) /\ WF_vars(PollResult)

\* --------------------------------------------- sync_all, one record's requests
\* The ids of the record are extracted; a record without id never enters
\* the loop.
ExtractIds ==
    /\ r_pc = "extract"
    /\ LET res == _get_encoded_id_fields(ps_record)
       IN  IF res.exc # "none"
           THEN r_pc' = "skipped" /\ UNCHANGED <<ps_encoded_id, ps_pdf_info>>
           ELSE /\ r_pc' = "detail"
                /\ ps_encoded_id' = res.value
                /\ ps_pdf_info' = _get_pdf_info(ps_record)
    /\ UNCHANGED <<ps_record, skip_pdf, detail_requested, pdf_requested,
                   index_key, pdf_rel_path>>
    /\ UNCHANGED <<flowVars, pollVars, mainVars>>
    /\ UNCHANGED fetchVars
    /\ UNCHANGED pageVars
    /\ UNCHANGED concVars
    /\ UNCHANGED browserVars

\* fetch_payslip_detail(encoded_id).
FetchDetail ==
    /\ r_pc = "detail"
    /\ detail_requested' = ps_encoded_id
    /\ \E outcome \in {"ok", "RuntimeError"} :
          r_pc' = IF outcome = "ok" THEN "pdf" ELSE "failed"
    /\ UNCHANGED <<ps_record, skip_pdf, ps_encoded_id, ps_pdf_info,
                   pdf_requested, index_key, pdf_rel_path>>
    /\ UNCHANGED <<flowVars, pollVars, mainVars>>
    /\ UNCHANGED fetchVars
    /\ UNCHANGED pageVars
    /\ UNCHANGED concVars
    /\ UNCHANGED browserVars

\* The PDF request, if enabled and both ids are there, then mark_cached.
FetchPdf ==
    /\ r_pc = "pdf"
    /\ IF ~skip_pdf /\ Truthy(ps_pdf_info[1]) /\ Truthy(ps_pdf_info[2])
       THEN /\ pdf_requested' = _build_pdf_api_url(ps_pdf_info[1], ps_pdf_info[2])
            /\ pdf_rel_path' \in BOOLEAN
       ELSE UNCHANGED <<pdf_requested, pdf_rel_path>>
    /\ index_key' = ps_encoded_id
    /\ r_pc' = "marked"
    /\ UNCHANGED <<ps_record, skip_pdf, ps_encoded_id, ps_pdf_info,
                   detail_requested>>
    /\ UNCHANGED <<flowVars, pollVars, mainVars>>
    /\ UNCHANGED fetchVars
    /\ UNCHANGED pageVars
    /\ UNCHANGED concVars
    /\ UNCHANGED browserVars

\* sync_pdfs_only for one cached entry without PDF (its key is
\* ps_encoded_id) and one listed record: _get_pdf_statement_ids maps the
\* record's encoded id to its pair, if complete, and the PDF is requested
\* when the entry's key is in the map.
SyncPdfOnly ==
    /\ r_pc = "pdf_only"
    /\ LET res == _get_encoded_id_fields(ps_record)
           info == _get_pdf_info(ps_record)
           in_map == /\ res.exc = "none"
                     /\ Truthy(info[1]) /\ Truthy(info[2])
                     /\ res.value = ps_encoded_id
       IN  /\ ps_pdf_info' = IF in_map THEN info ELSE ps_pdf_info
           /\ IF res.exc # "none"
              THEN r_pc' = "ValueError"
                   /\ UNCHANGED <<pdf_requested, pdf_rel_path>>
              ELSE IF in_map
              THEN /\ r_pc' = "pdf_done"
                   /\ pdf_requested' = _build_pdf_api_url(info[1], info[2])
                   /\ pdf_rel_path' \in BOOLEAN
              ELSE r_pc' = "pdf_skipped"
                   /\ UNCHANGED <<pdf_requested, pdf_rel_path>>
    /\ UNCHANGED <<ps_record, skip_pdf, ps_encoded_id, detail_requested,
                   index_key>>
    /\ UNCHANGED <<flowVars, pollVars, mainVars>>
    /\ UNCHANGED fetchVars
    /\ UNCHANGED pageVars
    /\ UNCHANGED concVars
    /\ UNCHANGED browserVars

InitRecord ==
    /\ InitCommon
    /\ AuthInit
    /\ BrowserOff
    /\ ConcOff
    /\ PageOff
    /\ FetchOff
    /\ SignOnOff
    /\ remote = <<>>
    /\ srv_total = 0
    /\ pc = "off"
    /\ ex_pc = "off"
    /\ ex_batch_size = 0
    /\ ps_record \in Payslips
    /\ \/ /\ r_pc = "extract"
          /\ skip_pdf \in BOOLEAN
          /\ ps_encoded_id = "none"
       \/ /\ r_pc = "pdf_only"
          /\ skip_pdf = FALSE
          /\ ps_encoded_id \in {"D1", "F1"}
    /\ ps_pdf_info = <<"none", "none">>
    /\ detail_requested = "none"
    /\ pdf_requested = NoUrl
    /\ index_key = "none"
    /\ pdf_rel_path = FALSE

NextRecord ==
    \/ ExtractIds
    \/ FetchDetail
    \/ FetchPdf
    \/ SyncPdfOnly

SpecRecord == InitRecord /\ [][NextRecord]_vars

\* --------------------------------------------- one authenticated request
\* list_all_payslips gets the response; sync_all has no handler around it.
ListingCall ==
    /\ q_pc = "call"
    /\ q_fetcher = "listing"
    /\ q_outcome' = QueryPayslips(q_response)
    /\ q_pc' = "done"
    /\ UNCHANGED <<q_fetcher, q_response, q_id, q_aborted>>
    /\ UNCHANGED <<mainVars, flowVars, pollVars, pdfVars>>
    /\ UNCHANGED pageVars
    /\ UNCHANGED concVars
    /\ UNCHANGED browserVars

\* fetch_payslip_detail gets the response inside the loop of sync_all,
\* whose handler re-raises a RuntimeError it takes for session expiry.
DetailCall ==
    /\ q_pc = "call"
    /\ q_fetcher = "detail"
    /\ LET got == FetchPayslipDetail(q_response, q_id)
       IN  /\ q_outcome' = got
           /\ q_aborted' = (got.exc = "RuntimeError" /\ ExpiryInMessage(got.msg))
    /\ q_pc' = "done"
    /\ UNCHANGED <<q_fetcher, q_response, q_id>>
    /\ UNCHANGED <<mainVars, flowVars, pollVars, pdfVars>>
    /\ UNCHANGED pageVars
    /\ UNCHANGED concVars
    /\ UNCHANGED browserVars

\* IHCMExtractor.fetch_batch gets the response.
BatchCall ==
    /\ q_pc = "call"
    /\ q_fetcher = "batch"
    /\ q_outcome' = fetch_batch(q_response)
    /\ q_pc' = "done"
    /\ UNCHANGED <<q_fetcher, q_response, q_id, q_aborted>>
    /\ UNCHANGED <<mainVars, flowVars, pollVars, pdfVars>>
    /\ UNCHANGED pageVars
    /\ UNCHANGED concVars
    /\ UNCHANGED browserVars

\* _validate_session gets the response.
ValidationCall ==
    /\ q_pc = "call"
    /\ q_fetcher = "validation"
    /\ q_outcome' = Returned(IF _validate_session(AnswerOf(q_response))
                             THEN "valid" ELSE "invalid")
    /\ q_pc' = "done"
    /\ UNCHANGED <<q_fetcher, q_response, q_id, q_aborted>>
    /\ UNCHANGED <<mainVars, flowVars, pollVars, pdfVars>>
    /\ UNCHANGED pageVars
    /\ UNCHANGED concVars
    /\ UNCHANGED browserVars

InitFetch ==
    /\ InitCommon
    /\ AuthInit
    /\ BrowserOff
    /\ ConcOff
    /\ PageOff
    /\ SignOnOff
    /\ PdfOff
    /\ remote = <<>>
    /\ srv_total = 0
    /\ pc = "off"
    /\ ex_pc = "off"
    /\ ex_batch_size = 0
    /\ q_pc = "call"
    /\ q_fetcher \in {"listing", "detail", "batch", "validation"}
    /\ q_response \in TextResponses
    /\ q_id \in (IF q_fetcher = "detail" THEN IdTexts ELSE {"plain"})
    /\ q_outcome = NoOutcome
    /\ q_aborted = FALSE

NextFetch ==
    \/ ListingCall
    \/ DetailCall
    \/ BatchCall
    \/ ValidationCall

SpecFetch == InitFetch /\ [][NextFetch]_vars

\* ------------------------------------------------ the listing loops, in step
\* The server's k-th response goes to each loop that is still running.
PageBoth ==
    /\ \E l \in Paginators : pg[l].pc = "run"
    /\ \A l \in Paginators : Len(pg[l].starts) < MaxRequests
    /\ \E r \in PageResponses :
          LET k == 1 + Len(pg["list_all_payslips"].starts)
              j == 1 + Len(pg["extract_all"].starts)
          IN  /\ pg' = [l \in Paginators |->
                         IF pg[l].pc # "run" THEN pg[l]
                         ELSE IF l = "list_all_payslips"
                         THEN list_all_payslips_turn(pg[l], k, r)
                         ELSE extract_all_turn(pg[l], j, r)]
              /\ first_total' = IF totals = {} THEN r.total ELSE first_total
              /\ totals' = totals \cup {r.total}
    /\ UNCHANGED <<mainVars, flowVars, pollVars, pdfVars, fetchVars>>
    /\ UNCHANGED concVars
    /\ UNCHANGED browserVars

InitPaginate ==
    /\ InitCommon
    /\ AuthInit
    /\ BrowserOff
    /\ ConcOff
    /\ SignOnOff
    /\ PdfOff
    /\ FetchOff
    /\ remote = <<>>
    /\ srv_total = 0
    /\ pc = "off"
    /\ ex_pc = "off"
    /\ ex_batch_size = 0
    /\ pg = [l \in Paginators |-> LoopStart]
    /\ first_total = -1
    /\ totals = {}

NextPaginate ==
    \/ PageBoth

SpecPaginate == InitPaginate /\ [][NextPaginate]_vars

\* --------------------------------------- sync_all, two invocations at once
\* sync_all: self.index.load().
ConcLoad(p) ==
    /\ syncers[p].pc = "load"
    /\ syncers' = [syncers EXCEPT ![p].pc = "list",
                                  ![p].data = load(disk_index)]
    /\ UNCHANGED <<disk_index, disk_files, last_writer, written>>
    /\ UNCHANGED <<mainVars, flowVars, pollVars, pdfVars, fetchVars, pageVars,
                   browserVars>>

\* sync_all: list_all_payslips, the partition, and the two early returns.
ConcList(p) ==
    /\ syncers[p].pc = "list"
    /\ LET miss == FindMissing(remote, syncers[p].data, disk_files)
       IN  IF remote = <<>>
           THEN /\ syncers' = [syncers EXCEPT ![p].pc = "returned"]
                /\ UNCHANGED <<disk_index, last_writer, written>>
           ELSE IF miss = <<>>
           THEN /\ syncers' = [syncers EXCEPT ![p].pc = "returned"]
                /\ disk_index' =
                      write_index(disk_index, syncers[p].data, StampOf(p))
                /\ last_writer' = p
                /\ written' = [written EXCEPT ![p] = syncers[p].data.payslips]
           ELSE /\ syncers' = [syncers EXCEPT ![p].pc = "loop",
                                              ![p].missing = miss,
                                              ![p].i = 1]
                /\ UNCHANGED <<disk_index, last_writer, written>>
    /\ UNCHANGED disk_files
    /\ UNCHANGED <<mainVars, flowVars, pollVars, pdfVars, fetchVars, pageVars,
                   browserVars>>

\* sync_all: one pass of the download loop (skip_pdf given).
ConcDownload(p) ==
    /\ syncers[p].pc = "loop"
    /\ syncers[p].i <= Len(syncers[p].missing)
    /\ \E r \in Responses :
          LET ps == syncers[p].missing[syncers[p].i]
              encoded_id == _get_encoded_id(ps)
              pay_date == _get_pay_date(ps)
              out == fetch_payslip_detail(r, encoded_id)
              json_path == _make_file_path(pay_date, "json")
          IN  IF out.exc = "none"
              THEN /\ disk_files' = Put(disk_files, json_path, encoded_id)
                   /\ syncers' =
                        [syncers EXCEPT
                           ![p].data = mark_cached(syncers[p].data, encoded_id,
                                                   pay_date, json_path, NoPath,
                                                   StampOf(p)),
                           ![p].i = syncers[p].i + 1,
                           ![p].fetched = syncers[p].fetched \cup {encoded_id}]
                   /\ UNCHANGED <<disk_index, last_writer, written>>
              ELSE IF out.exc = "RuntimeError" /\ IsSessionExpired(out.msg)
              THEN /\ disk_index' =
                        write_index(disk_index, syncers[p].data, StampOf(p))
                   /\ last_writer' = p
                   /\ written' =
                        [written EXCEPT ![p] = syncers[p].data.payslips]
                   /\ syncers' = [syncers EXCEPT ![p].pc = "raised"]
                   /\ UNCHANGED disk_files
              ELSE IF out.exc = "RuntimeError"
              THEN /\ syncers' = [syncers EXCEPT ![p].i = syncers[p].i + 1]
                   /\ UNCHANGED <<disk_index, disk_files, last_writer, written>>
              ELSE /\ syncers' = [syncers EXCEPT ![p].pc = "raised"]
                   /\ UNCHANGED <<disk_index, disk_files, last_writer, written>>
    /\ UNCHANGED <<mainVars, flowVars, pollVars, pdfVars, fetchVars, pageVars,
                   browserVars>>

\* sync_all: "Save final index" and the return.
ConcSave(p) ==
    /\ syncers[p].pc = "loop"
    /\ syncers[p].i > Len(syncers[p].missing)
    /\ disk_index' = write_index(disk_index, syncers[p].data, StampOf(p))
    /\ last_writer' = p
    /\ written' = [written EXCEPT ![p] = syncers[p].data.payslips]
    /\ syncers' = [syncers EXCEPT ![p].pc = "returned"]
    /\ UNCHANGED disk_files
    /\ UNCHANGED <<mainVars, flowVars, pollVars, pdfVars, fetchVars, pageVars,
                   browserVars>>

ConcLoadAny == \E p \in Syncers : ConcLoad(p)
ConcListAny == \E p \in Syncers : ConcList(p)
ConcDownloadAny == \E p \in Syncers : ConcDownload(p)
ConcSaveAny == \E p \in Syncers : ConcSave(p)

InitConcurrent ==
    /\ InitCommon
    /\ AuthInit
    /\ BrowserOff
    /\ SignOnOff
    /\ PdfOff
    /\ FetchOff
    /\ PageOff
    /\ remote \in Collections(MaxRecords)
    /\ srv_total = Len(remote)
    /\ pc = "off"
    /\ ex_pc = "off"
    /\ ex_batch_size = 0
    /\ syncers = [p \in Syncers |-> SyncerStart]
    /\ disk_index = NoIndexFile
    /\ disk_files = <<>>
    /\ last_writer = "none"
    /\ written = [p \in Syncers |-> <<>>]

NextConcurrent ==
    \/ ConcLoadAny
    \/ ConcListAny
    \/ ConcDownloadAny
    \/ ConcSaveAny

SpecConcurrent == InitConcurrent /\ [][NextConcurrent]_vars

\* --------------------------------------------- payslip main and the browser
\* main calls create_authenticated_session_with_browser: a valid cached
\* session gives a result without browser, otherwise the login starts.
MainAuth ==
    /\ b_pc = "main"
    /\ \E uc \in BOOLEAN, valid \in BOOLEAN :
          /\ b_use_cache' = uc
          /\ IF uc /\ valid
             THEN /\ auth_result' = NoAuthResult
                  /\ b_pc' = "sync"
             ELSE /\ b_pc' = LoginSteps[1]
                  /\ UNCHANGED auth_result
    /\ UNCHANGED <<browser, playwright, login_result, raised_at, main_ret,
                   after_close>>
    /\ UNCHANGED <<mainVars, flowVars, pollVars, pdfVars, fetchVars, pageVars,
                   concVars>>

\* One call of the login succeeds.
LoginStep ==
    /\ b_pc \in {LoginSteps[k] : k \in 1..Len(LoginSteps)}
    /\ playwright' = IF b_pc = "start" THEN "started" ELSE playwright
    /\ browser' = IF b_pc = "launch" THEN "open" ELSE browser
    /\ b_pc' = IF StepIndex(b_pc) < Len(LoginSteps)
               THEN LoginSteps[StepIndex(b_pc) + 1] ELSE "configure"
    /\ UNCHANGED <<b_use_cache, login_result, auth_result, raised_at,
                   main_ret, after_close>>
    /\ UNCHANGED <<mainVars, flowVars, pollVars, pdfVars, fetchVars, pageVars,
                   concVars>>

\* One call of the login raises: inside the try the except clauses close
\* the browser and stop the driver; main prints and returns 1.
LoginFails ==
    /\ b_pc \in {LoginSteps[k] : k \in 1..Len(LoginSteps)}
    /\ \E e \in BrowserErrors :
          LET after == IF InTry(b_pc) THEN CloseOnError(browser, playwright)
                       ELSE [browser |-> browser, playwright |-> playwright]
          IN  /\ browser' = after.browser
              /\ playwright' = after.playwright
              /\ raised_at' = Propagated(b_pc, e)
    /\ main_ret' = 1
    /\ b_pc' = "returned"
    /\ UNCHANGED <<b_use_cache, login_result, auth_result, after_close>>
    /\ UNCHANGED <<mainVars, flowVars, pollVars, pdfVars, fetchVars, pageVars,
                   concVars>>

\* The login builds the requests session and returns the AuthResult.
LoginReturns ==
    /\ b_pc = "configure"
    /\ login_result' = AuthResultOf(TRUE, TRUE, TRUE)
    /\ IF b_use_cache
       THEN /\ b_pc' = "save"
            /\ UNCHANGED auth_result
       ELSE /\ b_pc' = "sync"
            /\ auth_result' = AuthResultOf(TRUE, TRUE, TRUE)
    /\ UNCHANGED <<b_use_cache, browser, playwright, raised_at, main_ret,
                   after_close>>
    /\ UNCHANGED <<mainVars, flowVars, pollVars, pdfVars, fetchVars, pageVars,
                   concVars>>

\* create_authenticated_session_with_browser: cache.save, then the return;
\* an OSError of mkdir, write_text or chmod leaves through main's except.
SaveSession ==
    /\ b_pc = "save"
    /\ \E ok \in BOOLEAN :
          IF ok
          THEN /\ auth_result' = login_result
               /\ b_pc' = "sync"
               /\ UNCHANGED <<raised_at, main_ret>>
          ELSE /\ raised_at' = [step |-> "save", exc |-> "OSError",
                                 msg |-> "none"]
               /\ main_ret' = 1
               /\ b_pc' = "returned"
               /\ UNCHANGED auth_result
    /\ UNCHANGED <<b_use_cache, browser, playwright, login_result, after_close>>
    /\ UNCHANGED <<mainVars, flowVars, pollVars, pdfVars, fetchVars, pageVars,
                   concVars>>

\* main: the sync in the try statement, its except clauses, and the
\* finally clause with close_browser.
MainSync ==
    /\ b_pc = "sync"
    /\ \E out \in {"returned", "RuntimeError", "KeyboardInterrupt", "Exception"} :
          main_ret' = IF out = "returned" THEN 0
                      ELSE IF out = "Exception" THEN 2 ELSE 1
    /\ LET c == close_browser(auth_result, browser, playwright)
       IN  /\ auth_result' = c.res
           /\ browser' = c.browser
           /\ playwright' = c.playwright
           /\ after_close' = c
    /\ b_pc' = "returned"
    /\ UNCHANGED <<b_use_cache, login_result, raised_at>>
    /\ UNCHANGED <<mainVars, flowVars, pollVars, pdfVars, fetchVars, pageVars,
                   concVars>>

\* AuthResult.__exit__: close_browser once more.
ResultExit ==
    /\ b_pc = "returned"
    /\ raised_at = NoFailure
    /\ LET c == close_browser(auth_result, browser, playwright)
       IN  /\ auth_result' = c.res
           /\ browser' = c.browser
           /\ playwright' = c.playwright
    /\ b_pc' = "exited"
    /\ UNCHANGED <<b_use_cache, login_result, raised_at, main_ret, after_close>>
    /\ UNCHANGED <<mainVars, flowVars, pollVars, pdfVars, fetchVars, pageVars,
                   concVars>>

InitBrowser ==
    /\ InitCommon
    /\ AuthInit
    /\ SignOnOff
    /\ PdfOff
    /\ FetchOff
    /\ PageOff
    /\ ConcOff
    /\ remote = <<>>
    /\ srv_total = 0
    /\ pc = "off"
    /\ ex_pc = "off"
    /\ ex_batch_size = 0
    /\ b_pc = "main"
    /\ b_use_cache = FALSE
    /\ browser = "none"
    /\ playwright = "none"
    /\ login_result = NoAuthResult
    /\ auth_result = NoAuthResult
    /\ raised_at = NoFailure
    /\ main_ret = -1
    /\ after_close = NotClosed

NextBrowser ==
    \/ MainAuth
    \/ LoginStep
    \/ LoginFails
    \/ LoginReturns
    \/ SaveSession
    \/ MainSync
    \/ ResultExit

SpecBrowser == InitBrowser /\ [][NextBrowser]_vars

\* ------------------------------------------------------------------ claims
Last(seq) == seq[Len(seq)]
AllHaveIds == \A j \in DOMAIN remote : remote[j].has_id
RemoteIds == {remote[j].id : j \in DOMAIN remote}
OnDisk == index_file.content.payslips
RecordedThisRun == {n \in Ids : marked[n] > 0}
ShouldFetch(n) == IF n \in DOMAIN loaded THEN 0 ELSE 1

\* C1: resumability.  (a) When a run that started from an empty index and
\* listed all N records (each with an id) is ended by a session-expiry
\* answer to the fetch of record k, all fetches before it having succeeded,
\* the index on disk holds exactly the k-1 records before k.  (b) In a run
\* that follows a run ended by RuntimeError, with the same listing and every
\* indexed artifact in place, a detail fetch is issued for exactly the
\* records the loaded index does not hold, N - (k-1) of them, each once.
C1_Resumable ==
    /\ (/\ pc = "idle"
        /\ result = "RuntimeError"
        /\ expiry_signal
        /\ DOMAIN loaded = {}
        /\ failed = {}
        /\ AllHaveIds
        /\ all_payslips = remote)
       => /\ index_file.exists
          /\ DOMAIN OnDisk = {remote[j].id : j \in 1..(i - 1)}
          /\ Cardinality(DOMAIN OnDisk) = i - 1
          /\ index_file.content.total_count = i - 1
    /\ (/\ pc \in {"loop", "idle"}
        /\ hist.prev_result = "RuntimeError"
        /\ hist.dangling = {}
        /\ AllHaveIds
        /\ all_payslips = remote)
       => /\ \A n \in RemoteIds : fetched[n] <= ShouldFetch(n)
          /\ pc = "loop" =>
                Len(missing) = Len(remote) - Cardinality(DOMAIN loaded)
          /\ result = "returned" =>
                \A n \in RemoteIds : fetched[n] = ShouldFetch(n)

C1_Witness ==
    /\ clock = 2
    /\ hist.prev_result = "RuntimeError"
    /\ hist.dangling = {}
    /\ result = "returned"
    /\ all_payslips = remote
    /\ AllHaveIds
    /\ Len(remote) = 2
    /\ DOMAIN loaded = {1}
    /\ fetched[1] = 0
    /\ fetched[2] = 1

\* C2: at most once within one run.  In a run that started from an empty
\* index and whose listing returned the N records of the collection once in
\* full, no id is fetched or marked more than once; and when the run returns
\* with every record identified and every detail fetch answered with the
\* detail, the index on disk holds exactly N entries, one mark_cached call
\* and one fetch per remote id.
C2_AtMostOnceInRun ==
    (/\ pc \in {"loop", "idle"}
     /\ clock >= 1
     /\ DOMAIN loaded = {}
     /\ all_payslips = remote)
    => /\ \A n \in Ids : fetched[n] <= 1 /\ marked[n] <= 1
       /\ (result = "returned" /\ failed = {} /\ AllHaveIds)
          => /\ Cardinality(DOMAIN OnDisk) = Len(remote)
             /\ DOMAIN OnDisk = RemoteIds
             /\ \A n \in RemoteIds : marked[n] = 1 /\ fetched[n] = 1

C2_Witness ==
    /\ result = "returned"
    /\ DOMAIN loaded = {}
    /\ all_payslips = remote
    /\ AllHaveIds
    /\ failed = {}
    /\ Len(remote) = 2
    /\ remote[1].pay_date = remote[2].pay_date
    /\ marked[1] = 1
    /\ marked[2] = 1
    /\ Cardinality(DOMAIN OnDisk) = 2

\* C3: at most once across invocations.  No record whose artifact was not
\* removed externally has its detail downloaded and written a second time.
C3_AtMostOnceAcrossRuns == repersisted = {}

\* C4: idempotence.  When a run that returned normally, with the full
\* listing and no failed record, is followed by a run against the same
\* collection with every indexed artifact in place, the second run issues no
\* detail fetch, and when it returns it returns newly_downloaded = 0 and the
\* entries on disk are those it loaded.
C4_Idempotent ==
    (/\ pc \in {"loop", "idle"}
     /\ hist.prev_result = "returned"
     /\ hist.prev_clean
     /\ hist.prev_full
     /\ hist.dangling = {}
     /\ all_payslips = remote)
    => /\ \A n \in Ids : fetched[n] = 0
       /\ pc = "idle"
       /\ result = "returned" => /\ ret[3] = 0
                                 /\ OnDisk = loaded

C4_Witness ==
    /\ clock = 2
    /\ hist.prev_result = "returned"
    /\ hist.prev_clean
    /\ hist.prev_full
    /\ hist.dangling = {}
    /\ all_payslips = remote
    /\ result = "returned"
    /\ Len(remote) = 2
    /\ DOMAIN loaded = {1, 2}
    /\ ret = <<2, 2, 0>>
    /\ index_file.content.last_sync = 2

\* C5: dangling-artifact detection.  is_cached(id) is true only if the index
\* holds an entry for id and the entry's JSON file exists; and a listed
\* record whose loaded entry had no file is among the missing records of the
\* next run and is fetched by it when the run returns.
C5_DanglingDetected ==
    /\ \A n \in Ids :
          is_cached(data, files, n)
          => /\ n \in DOMAIN data.payslips
             /\ data.payslips[n].json_path \in DOMAIN files
    /\ \A j \in DOMAIN all_payslips :
          (all_payslips[j].has_id /\ all_payslips[j].id \in hist.dangling)
          => /\ pc = "loop" => \E m \in DOMAIN missing : missing[m] = all_payslips[j]
             /\ (pc = "idle" /\ result = "returned")
                => fetched[all_payslips[j].id] = 1

C5_Witness ==
    /\ pc = "idle"
    /\ result = "returned"
    /\ \E j \in DOMAIN all_payslips :
          /\ all_payslips[j].id \in hist.dangling
          /\ all_payslips[j].id \in DOMAIN loaded
          /\ fetched[all_payslips[j].id] = 1
          /\ is_cached(data, files, all_payslips[j].id)

\* C6: session-expiry flush.  Once a detail response was a 401 or a login
\* page, the run has ended with the error, no later record was fetched, and
\* the index on disk holds every entry recorded in this run.
C6_ExpiryFlush ==
    expiry_signal
    => /\ pc = "idle"
       /\ result = "RuntimeError"
       /\ i <= Len(missing)
       /\ \A m \in (i + 1)..Len(missing) : fetched[missing[m].id] = 0
       /\ index_file.exists
       /\ OnDisk = data.payslips
       /\ RecordedThisRun \subseteq DOMAIN OnDisk
       /\ index_file.content.last_sync = clock

C6_Witness ==
    /\ expiry_signal
    /\ result = "RuntimeError"
    /\ RecordedThisRun # {}
    /\ RecordedThisRun \subseteq DOMAIN OnDisk
    /\ i = 2

\* C7: interrupt flush.  When main reports "Progress has been saved" after
\* an interrupt in the download loop, the index on disk holds every record
\* completed in this run.
C7_InterruptFlush ==
    (pc = "idle"
     /\ main_message(result) = "Interrupted by user. Progress has been saved.")
    => /\ RecordedThisRun \subseteq DOMAIN OnDisk
       /\ RecordedThisRun # {} => index_file.exists

\* C8: no progress lost on any error path.  When an error (not an interrupt)
\* ends sync_all after at least one record was recorded in this run, the
\* index on disk holds every entry recorded in the run.
C8_NoProgressLost ==
    (/\ pc = "idle"
     /\ result \in {"RuntimeError", "JSONDecodeError", "OSError"}
     /\ RecordedThisRun # {})
    => RecordedThisRun \subseteq DOMAIN OnDisk

\* C9: persist at normal completion.  Every run that returns its triple has
\* written the index file, with last_sync and total_count of this run.
C9_PersistAtReturn ==
    (pc = "idle" /\ result = "returned")
    => /\ index_file.exists
       /\ index_file.content.last_sync = clock
       /\ index_file.content.total_count = Cardinality(DOMAIN data.payslips)

\* C10: pagination stop rule.  A page request after the first is issued only
\* if the last page was not empty and the accumulated count is below the
\* total the server reports; and when the server reports total 4 and delivers
\* two pages of 2 records (for extract_all: asked for pages of 3), the listing
\* has returned the 4 records after exactly 2 requests.
Accumulated == IF ex_pc = "off" THEN Len(all_payslips) ELSE Len(all_employees)

C10_PaginationStop ==
    /\ [][(requests' = requests + 1 /\ requests > 0)
          => /\ Len(page_lens) = requests
             /\ Last(page_lens) > 0
             /\ Accumulated < srv_total]_vars
    /\ []((/\ srv_total = 4
           /\ Len(page_lens) >= 2
           /\ page_lens[1] = 2
           /\ page_lens[2] = 2)
          => /\ requests = 2
             /\ page_lens = <<2, 2>>
             /\ Accumulated = 4
             /\ pc = "listed" \/ ex_pc = "returned")

C10_Witness ==
    /\ ex_pc = "returned"
    /\ ex_batch_size = 3
    /\ srv_total = 4
    /\ page_lens = <<2, 2>>
    /\ requests = 2
    /\ Len(all_employees) = 4

\* C11: pagination completeness under short pages.  Every page request after
\* the first starts at the number of records accumulated so far, the sum of
\* the lengths of the pages delivered; and when the server reports total = N
\* with every page and answers every request with a non-empty slice of the
\* N records, the listing returns exactly the N records in server order.
RECURSIVE SumSeq(_)
SumSeq(seq) == IF seq = <<>> THEN 0 ELSE Head(seq) + SumSeq(Tail(seq))

C11_ShortPages ==
    /\ (pc = "list" /\ requests > 0)
       => start = Len(all_payslips) /\ start = SumSeq(page_lens)
    /\ (ex_pc = "page" /\ requests > 0)
       => ex_start = Len(all_employees) /\ ex_start = SumSeq(page_lens)
    /\ (/\ pc = "listed" \/ ex_pc = "returned"
        /\ requests = Len(page_lens)
        /\ srv_total = Len(remote)
        /\ pc = "listed" => total = srv_total
        /\ ex_pc = "returned" => ex_total = srv_total
        /\ \A k \in DOMAIN page_lens : page_lens[k] >= 1 \/ Len(remote) = 0)
       => /\ pc = "listed" => all_payslips = remote
          /\ ex_pc = "returned" => all_employees = remote
          /\ SumSeq(page_lens) = Len(remote)

C11_Witness ==
    /\ pc = "listed"
    /\ srv_total = 4
    /\ Len(remote) = 4
    /\ page_lens = <<1, 2, 1>>
    /\ requests = 3
    /\ all_payslips = remote

\* ------------------------------------------------- claims on the session store
WellFormed(file) ==
    file.exists /\ file.content.json = "object" /\ file.content.lacks = {}
Broken(file) == file.exists /\ ~WellFormed(file)
\* The file is as the program left it: absent or a well-formed record.
StoreIntact == ~Broken(session_file)
CallEnded == a_pc = "idle" /\ a_result \in {"returned", "raised"}
CachedCall == entry # "protocol" /\ use_cache

\* C12: live validation always decides cache reuse.  In a call with
\* use_cache that loaded a session record, once the call is past the
\* validation step or has ended, exactly one validation request was issued,
\* whatever the token; and a session from the cache is returned only after
\* the validation of this call succeeded.
C12_LiveValidationDecides ==
    (/\ CachedCall
     /\ cache_found
     /\ a_pc \notin {"load", "jwt", "validate"})
    => /\ validations = 1
       /\ client.source = "cache" => validated = "ok"

C14_ValidationFailure ==
    validated = "failed"
    => /\ a_pc \in {"creds", "login"} => ~session_file.exists
       /\ (a_pc = "creds") => (~creds_requested /\ ~browser_launched)
       /\ a_pc \in {"creds", "login", "save_write", "save_chmod", "idle"}
       /\ a_pc = "idle" => creds_requested
       /\ (a_pc = "idle" /\ a_result = "raised") => ~session_file.exists
       /\ (a_pc = "idle" /\ a_result = "returned") => client.source = "login"

C14_Witness ==
    /\ validated = "failed"
    /\ file_at_call.exists
    /\ a_pc = "idle"
    /\ a_result = "raised"
    /\ a_at = "login"
    /\ ~session_file.exists

\* C15: every successful fresh login is persisted.  When a call returns a
\* session made by a fresh login (create_authenticated_session, or a browser
\* entry point with use_cache), the session file holds that session's token
\* and cookies, created in this call.
C15_FreshLoginPersisted ==
    (/\ CallEnded
     /\ a_result = "returned"
     /\ client.source = "login"
     /\ entry = "protocol" \/ use_cache
     /\ StoreIntact)
    => /\ session_file.exists
       /\ session_file.content.bearer_token = client.bearer_token
       /\ session_file.content.cookies = client.cookies
       /\ session_file.content.created_at = calls

\* C16: use_cache = False leaves the store untouched.  In a call of a browser
\* entry point without use_cache no SessionCache method is run, and the
\* session file stays as it was when the call began, up to the return and up
\* to every raise.
C16_NoCacheUntouched ==
    (entry # "protocol" /\ ~use_cache)
    => /\ store_ops = {}
       /\ (StoreIntact \/ Broken(file_at_call)) => session_file = file_at_call

C16_Witness ==
    /\ entry = "with_browser"
    /\ ~use_cache
    /\ CallEnded
    /\ a_result = "returned"
    /\ client.source = "login"
    /\ file_at_call.exists
    /\ session_file = file_at_call
    /\ session_file.content.bearer_token # client.bearer_token

\* C17: self-healing of the session store.  When load() ran on a session
\* file that was not a well-formed record, it did not raise, it returned no
\* record, and the file is deleted when the call goes on to the credentials.
C17_SelfHealing ==
    ("load" \in store_ops /\ Broken(file_at_call))
    => /\ ~(a_result = "raised" /\ a_at = "load")
       /\ ~cache_found
       /\ (a_pc = "creds" \/ a_at = "load") => ~session_file.exists

\* C18: owner-only session file.  Whenever the session file exists and holds
\* a bearer token, its mode is 0600.
C18_OwnerOnly ==
    (/\ session_file.exists
     /\ session_file.content.json = "object"
     /\ "bearer_token" \notin session_file.content.lacks)
    => session_file.mode = "0600"

\* C19: token-expiry rule.  For a three-part token whose payload decodes to
\* a JSON object with an integer exp claim or none, is_token_expired returns
\* true exactly when exp is present and exp - now < 300, without raising.
ObjectToken(t) == t.segments = 3 /\ t.b64ok /\ t.json = "object"

C19_ExpiryRule ==
    (/\ checked.done
     /\ ObjectToken(cache_data.bearer_token)
     /\ cache_data.bearer_token.exp.kind \in {"absent", "int"})
    => /\ checked.res.exc = "none"
       /\ checked.res.value =
             (/\ cache_data.bearer_token.exp.kind = "int"
              /\ cache_data.bearer_token.exp.value - checked.now
                    < buffer_minutes * 60)

\* C20: fail-safe expiry check.  For a malformed token (segment count other
\* than 3, payload not base64, not JSON, JSON but not an object, or an exp
\* claim that is not a number) is_token_expired returns true and does not
\* raise.
Malformed(t) ==
    \/ t.segments # 3
    \/ ~t.b64ok
    \/ t.json # "object"
    \/ t.exp.kind \in {"string", "null"}

C20_FailSafe ==
    (checked.done /\ Malformed(cache_data.bearer_token))
    => /\ checked.res.exc = "none"
       /\ checked.res.value

\* ----------------------------------------------- claims on the counts and flush
\* The listed records from which no id can be extracted.
NoIdListed == Cardinality({j \in DOMAIN all_payslips : ~all_payslips[j].has_id})

\* C23: unidentifiable records are counted separately.  When sync_all
\* returns its triple, already_cached is the number of listed records that
\* have an id and were found cached: the listed records less the missing
\* ones and less those without an id; and newly_downloaded counts only
\* records downloaded in this run.
C23_UnidentifiedCounted ==
    (pc = "idle" /\ result = "returned")
    => /\ ret[2] = Len(all_payslips) - Len(missing) - NoIdListed
       /\ ret[3] = Cardinality(RecordedThisRun)

\* C28: no batched flush.  At every point of the download loop the index on
\* disk holds an entry for every record completed in this run.
C28_NoBatchedFlush ==
    pc = "loop" => RecordedThisRun \subseteq DOMAIN OnDisk

\* ------------------------------------------------------ claims on the sign-on
Steps == {FlowOrder[k] : k \in DOMAIN FlowOrder}
Answered(step) == f_resp[step] # NoResponse
Ended == f_pc \in {"done", "failed"}

\* The responses of the success case: the CSRF cookie is set, sign-in-start
\* returns a session, identify and challenge-respond return an empty object,
\* the SSO cookie is set by challenge-respond, authorize succeeds, and the
\* token endpoint returns an access_token.
SuccessCase(step) ==
    LET r == f_resp[step]
    IN  CASE step = "csrf" -> r.status = 200 /\ r.cookie
          [] step = "start" -> r.status = 200 /\ r.body = "object"
                               /\ r.session # "none"
          [] step = "identify" -> r.status = 200 /\ r.body = "object"
                                  /\ r.session = "none"
          [] step = "challenge" -> r.status = 200 /\ r.body = "object"
                                   /\ r.cookie
          [] step = "authorize" -> r.status = 200
          [] step = "home" -> TRUE
          [] step = "token" -> r.status = 200 /\ r.body = "token"

\* C21: the sign-on result.  When every step gets the response of the
\* success case, with access_token T from the token endpoint, the flow ends
\* by returning a session whose Authorization header carries exactly T and
\* whose cookie jar holds the SSO session cookie.
C21_SignOnResult ==
    (Ended /\ \A step \in Steps : Answered(step) => SuccessCase(step))
    => /\ f_pc = "done"
       /\ f_returned
       /\ authorization = f_resp["token"].token
       /\ SSO_COOKIE \in jar

C21_Witness ==
    /\ f_pc = "done"
    /\ \A step \in Steps : Answered(step) /\ SuccessCase(step)
    /\ f_resp["token"].token = "T2"
    /\ authorization = "T2"
    /\ session_token = "s1"
    /\ ~f_resp["authorize"].cookie

\* C22: credentials are never logged in plaintext.  With debug logging
\* enabled, no request body written to the debug log holds the plaintext
\* username or the plaintext password of the Credential.
C22_NoPlaintextCredentials ==
    debug => \A e \in debug_entries :
                e.userId # username /\ e.password # password

\* The requests of the steps proper, in order (the home page request of
\* the session set-up is not one of them).
StepOrder == <<"csrf", "start", "identify", "challenge", "authorize", "token">>
IsPrefix(s, t) == Len(s) <= Len(t) /\ s = SubSeq(t, 1, Len(s))
StepsIssued == SelectSeq(f_trace, LAMBDA x : x # "home")

\* The failure of a step: CSRF without the cookie, sign-in-start without
\* session, an HTTP error of the sign-in requests, a FAILED status or an
\* error field of challenge-respond, no SSO cookie after authorize, and for
\* the token exchange 401, an HTTP error, an empty or HTML body, or no
\* access_token.
StepFailed(step) ==
    LET r == f_resp[step]
    IN  /\ Answered(step)
        /\ CASE step = "csrf" -> r.status >= 400 \/ ~r.cookie
              [] step = "start" -> r.status >= 400 \/ r.session = "none"
              [] step = "identify" -> r.status >= 400
              [] step = "challenge" ->
                    r.status >= 400 \/ r.body \in {"failed", "error"}
              [] step = "authorize" -> SSO_COOKIE \notin jar
              [] step = "home" -> FALSE
              [] step = "token" ->
                    \/ r.status >= 400
                    \/ r.body \in {"empty", "doctype", "DOCTYPE", "html",
                                   "object"}

\* C24: the sign-on step order.  The requests are issued in the order CSRF,
\* sign-in-start, identify, password challenge, SSO authorize, token
\* exchange, each only after every earlier step succeeded; a step that
\* fails ends the flow with an error, its request is the last one issued,
\* and no session is returned.
C24_StepOrder ==
    /\ IsPrefix(StepsIssued, StepOrder)
    /\ \A step \in Steps :
          StepFailed(step)
          => /\ f_pc = "failed"
             /\ f_at = step
             /\ Last(f_trace) = step
             /\ ~f_returned
    /\ f_pc = "failed" => ~f_returned /\ Last(f_trace) = f_at
    /\ f_returned => StepsIssued = StepOrder

C24_Witness ==
    /\ f_pc = "failed"
    /\ f_at = "start"
    /\ f_resp["start"].status = 200
    /\ f_resp["start"].session = "none"
    /\ f_trace = <<"csrf", "start">>

\* C25: bad credentials are fatal.  A challenge-respond body with status
\* FAILED or with an error field fails the flow at that step; neither the
\* authorize request nor the token request is issued.
C25_BadCredentialsFatal ==
    f_resp["challenge"].body \in {"failed", "error"}
    => /\ f_pc = "failed"
       /\ f_at = "challenge"
       /\ ~Answered("authorize")
       /\ ~Answered("token")
       /\ Last(f_trace) = "challenge"

C25_Witness ==
    /\ f_resp["challenge"].status = 200
    /\ f_resp["challenge"].body = "failed"
    /\ f_resp["challenge"].cookie
    /\ f_pc = "failed"

\* C26: the SSO cookie gate.  If the SSO session cookie is not in the jar
\* after the authorize request, the flow fails before the token request,
\* whatever the status of the authorize response.
C26_SsoCookieGate ==
    (Answered("authorize") /\ SSO_COOKIE \notin jar)
    => /\ f_pc = "failed"
       /\ f_at = "authorize"
       /\ ~Answered("token")
       /\ ~Answered("home")

C26_Witness ==
    /\ f_resp["authorize"].status = 200
    /\ SSO_COOKIE \notin jar
    /\ f_pc = "failed"

\* C27: the failure signals of the token exchange.  A token response that
\* is 401, has any other status than 200, an empty body, an HTML body or no
\* access_token fails the flow; no Authorization header is set and no
\* session is returned.
C27_TokenFailureSignals ==
    (/\ Answered("token")
     /\ \/ f_resp["token"].status # 200
        \/ f_resp["token"].body \in {"empty", "doctype", "DOCTYPE", "html",
                                     "object"})
    => /\ f_pc = "failed"
       /\ authorization = "none"
       /\ ~f_returned

\* ------------------------------------------------------- claims on the polling
PollingBounded ==
    /\ polls <= max_polls
    /\ poll_pc = "poll" => first_yield = 0
    /\ first_yield # 0 => polls = first_yield
    /\ poll_pc = "acquired" => first_yield # 0 /\ Truthy(polled_token)
    /\ poll_pc = "failed" => polls = max_polls /\ first_yield = 0

\* C30: bounded token polling.  The browser login polls at most 30 times,
\* stops at the first poll that gives a non-empty token, goes on after a
\* poll that raises, fails only when all 30 polls gave no token, and the
\* loop always comes to an end.
C30_BoundedPolling ==
    /\ []PollingBounded
    /\ (poll_pc = "poll") ~> (poll_pc \in {"acquired", "failed"})

C30_Witness ==
    /\ poll_pc = "acquired"
    /\ polls = max_polls
    /\ first_yield = max_polls

\* ------------------------------------------------------ claims on the two ids
\* The id the detail link of the record gives: the one in payDetailUri, else
\* the fallback id field.
DetailLinkId ==
    IF ps_record.payDetailUri \in {"D1", "D2"}
    THEN ps_record.payDetailUri ELSE ps_record.id

\* statementImageUri gives both a statement id and an image id.
CompletePair ==
    /\ ps_record.statementImageUri.kind = "pdf"
    /\ ps_record.statementImageUri.statement # ""
    /\ ps_record.statementImageUri.image # ""

\* C29: the two id namespaces are kept apart.  The detail request and the
\* index key use the id of payDetailUri (else of the fallback fields), the
\* PDF request uses the two ids of statementImageUri, neither stands in for
\* the other, and without a complete pair from statementImageUri no PDF
\* request is made.
C29_IdNamespaces ==
    /\ detail_requested # "none" => detail_requested = DetailLinkId
    /\ index_key # "none" => index_key = DetailLinkId
    /\ pdf_requested # NoUrl
       => /\ CompletePair
          /\ pdf_requested.statementId = ps_record.statementImageUri.statement
          /\ pdf_requested.imageId = ps_record.statementImageUri.image
    /\ (r_pc = "marked" /\ CompletePair /\ ~skip_pdf) => pdf_requested # NoUrl
    /\ (r_pc = "pdf_done") => ps_encoded_id = DetailLinkId

C29_Witness ==
    /\ r_pc = "marked"
    /\ ps_record.payDetailUri = "D1"
    /\ ps_record.id = "F1"
    /\ detail_requested = "D1"
    /\ index_key = "D1"
    /\ pdf_requested = _build_pdf_api_url("S1", "I1")

\* ------------------------------------------------- claims on errors and paths
\* C33: remote errors are not swallowed by sync.  A detail fetch that fails
\* without an expiry signal (404, 500) ends the sync_all run: the index is
\* persisted and the error reaches the caller.
C33_RemoteErrorsSurface ==
    failed # {}
    => /\ pc = "idle"
       /\ result = "RuntimeError"
       /\ index_file.exists
       /\ OnDisk = data.payslips

\* C35: each index entry points at its own record's artifact.  After a
\* sync_all run the file at the json_path of every index entry, unless it
\* was removed from outside, holds the detail fetched for that entry's id:
\* no two ids share a path.
C35_OwnArtifact ==
    (pc = "idle" /\ result = "returned")
    => \A n \in DOMAIN OnDisk :
          OnDisk[n].json_path \in DOMAIN files
          => files[OnDisk[n].json_path] = n

C32_OnlyLastValidated ==
    [][(a_pc # "idle" /\ session_file' # session_file)
       => \/ ~session_file'.exists
          \/ /\ a_pc = "save_write"
             /\ session_file'.content =
                   Content("object", {}, client.bearer_token, client.cookies,
                           calls, calls)
          \/ /\ a_pc = "save_chmod"
             /\ session_file'.content = session_file.content
          \/ /\ a_pc = "validate"
             /\ session_file.exists
             /\ session_file' =
                   [session_file EXCEPT !.content.last_validated = calls]]_vars

C32_Witness ==
    /\ validated = "ok"
    /\ a_result = "returned"
    /\ "update" \in store_ops
    /\ session_file.content.last_validated = 2
    /\ session_file.content.created_at = 1
    /\ session_file.content.xsrf_token = "x1"
    /\ session_file.content = [cache_data EXCEPT !.last_validated = 2]

\* ------------------------------------------------ claims on expiry signals
\* The body looks like an HTML login page: it begins with the doctype
\* marker, in either case, or with the html tag.
LooksLikeLoginPage(r) == r.text \in {"<!doctype", "<!DOCTYPE", "<html"}

\* The outcome is a session-expiry failure.
ExpiryFailure(o) ==
    o.exc = "RuntimeError" /\ o.msg.kind \in {"auth 401", "login page"}

\* C31: an HTML login page means session expiry everywhere.  The payslip
\* listing, the payslip detail fetch and the employee batch fetch fail with
\* a session-expiry error on every response whose body looks like a login
\* page, whatever the case of the doctype marker, and the live validation
\* does not accept such a response.
C31_LoginPageIsExpiry ==
    (q_pc = "done" /\ LooksLikeLoginPage(q_response))
    => IF q_fetcher = "validation"
       THEN q_outcome.value = "invalid"
       ELSE ExpiryFailure(q_outcome)

\* C36: expiry is recognised only from real expiry signals.  sync_all
\* aborts the run as session expired only when the response to the detail
\* request was 401 or a login page.
C36_OnlyRealExpiry ==
    q_aborted
    => \/ q_response.status = 401
       \/ q_response.text \in {"<!doctype", "<!DOCTYPE", "<html"}

\* ------------------------------------------------------ the listing loops
\* A loop has issued these start offsets and holds these records.
Issued(l) == pg[l].starts
Held(l) == pg[l].all

\* C38: fed the same sequence of page responses, list_all_payslips and
\* extract_all issue the same start offsets and, when they have returned,
\* return the same sequence of records.
C38_PaginatorsAgree ==
    pg["list_all_payslips"].pc # "off"
    => /\ Issued("list_all_payslips") = Issued("extract_all")
       /\ pg["list_all_payslips"].pc = pg["extract_all"].pc
       /\ Held("list_all_payslips") = Held("extract_all")

\* C39: when every response reports a total, a listing loop returns after
\* at most total + 1 requests, total being the total the server reported
\* first, whatever totals it reports afterwards and although no page is
\* empty.
C39_ListingTerminates ==
    (first_total >= 0 /\ -1 \notin totals)
    => \A l \in Paginators : Len(Issued(l)) <= first_total + 1

\* ------------------------------------------------- concurrent invocations
Persisted == DOMAIN disk_index.content.payslips
SyncerEnded(p) == syncers[p].pc \in {"returned", "raised"}

\* C34: with two interleaved sync_all invocations the last writer wins:
\* index.json holds exactly the mapping of the invocation that saved last,
\* whatever the other one had saved before.
C34_LastWriterWins ==
    \A p \in Syncers :
        last_writer = p
        => /\ disk_index.exists
           /\ disk_index.content.payslips = syncers[p].data.payslips

\* Both invocations have ended, one had recorded and saved an entry that
\* index.json no longer holds, and one record was fetched by both.
C34_Witness ==
    \E p, q \in Syncers :
        /\ p # q
        /\ SyncerEnded(p)
        /\ SyncerEnded(q)
        /\ last_writer = q
        /\ \E n \in syncers[p].fetched :
              n \in DOMAIN written[p] /\ n \notin Persisted
        /\ syncers[p].fetched \cap syncers[q].fetched # {}

\* ------------------------------------------------------ the browser's end
MainEnded == b_pc \in {"returned", "exited"}
Launched == browser # "none"

\* C40: when main has ended, by a failed login, a failed save of the
\* session or after the sync, a browser that was launched is closed and
\* its driver stopped; after close_browser the result holds no browser
\* context, and a second close_browser changes nothing.
C40_BrowserClosed ==
    MainEnded
    => /\ Launched => (browser = "closed" /\ playwright = "stopped")
       /\ raised_at = NoFailure
          => /\ ~auth_result.browser_context
             /\ [res |-> auth_result, browser |-> browser,
                 playwright |-> playwright] = after_close
====
